---- MODULE Spec2Model ----
(***************************************************************************)
(* Verification model of rakaar/paper_agent_2: the pipeline controllers    *)
(* (streamlit_app_enhanced.py, streamlit_app_fixed.py, streamlit_app.py),  *)
(* narration synthesis (processors/audio_generator.py) and video assembly  *)
(* (processors/video_creator.py).                                          *)
(*                                                                         *)
(* Conventions.  A Python value that is a path is "path", the empty string *)
(* is "", and None is "none".  A call of an external collaborator is an    *)
(* outcome drawn from the set of results its code can produce: "ok" /      *)
(* "path" (returned), "none" (returned None), "raise" (raised Exception).  *)
(* st.rerun() / st.experimental_rerun() raise Streamlit's script-control   *)
(* exception, which is a BaseException: no `except Exception` catches it,  *)
(* the script run ends and a new run of the script is queued.              *)
(* A running script is not interrupted by the user: user actions happen    *)
(* when no script run is in progress (pc = "idle").                        *)
(***************************************************************************)
EXTENDS Integers, Sequences, FiniteSets, TLC

VARIABLES
    app,                 \* which controller script is served
    slides_only,         \* the "Generate slides only" checkbox
    processing_status,   \* st.session_state.processing_status[stage]["status"]
    processing_started,  \* st.session_state.processing_started
    processing_complete, \* st.session_state.processing_complete
    processing_failed,   \* st.session_state.processing_failed
    output_paths,        \* st.session_state.output_paths
    pc,                  \* position of the script run
    slides_data,         \* the persisted slide plan (narration length per slide)
    audio_dir,           \* the *.wav files of the audio directory
    frames_dir,          \* the deck.*.png files of the frames directory
    vpc,                 \* position in narrate / render / create_video
    png_files,           \* create_video: sorted frame files
    audio_files,         \* create_video: sorted audio files
    standardized_audio_files, \* create_video: standardized audio, in order
    individual_clips,    \* create_video: the per-slide clips built so far
    loop_i,              \* create_video: 1-based pass of the clip loop
    audio_result,        \* what generate_audio returned ("" while it has not)
    temp_dir,            \* create_video: whether its temporary workspace exists
    video_result,        \* what create_video returned ("" while it has not)
    video_message,       \* the last failure reported through update_progress
    encoder_calls,       \* number of ffmpeg invocations create_video has made
    last_call,           \* the latest ffmpeg invocation: command and -t argument
    output_video,        \* the file at the output video path
    name_n,              \* naming convention: the slide number being named
    name_order,          \* naming convention: how the names of name_n and name_n + 1 sort
    client,              \* retrying client: which function is running
    max_retries,         \* retrying client: the most requests one call may issue
    initial_backoff,     \* retrying client: the base of the sleep, in seconds
    attempt,             \* retrying client: 0-based number of the current attempt
    request_log,         \* retrying client: the outcome of every request issued
    sleeps,              \* retrying client: every sleep made, in order
    rpc,                 \* retrying client: "call" while in the loop, then "done"
    retry_result,        \* retrying client: what the call returned or raised
    cache,               \* extraction cache: self._cache, extractor per resolved path
    cache_lock,          \* extraction cache: the thread holding self._lock, or 0
    cache_gen,           \* extraction cache: deletions of the entry of each path so far
    extractors,          \* every MistralExtractor constructed so far
    next_id,             \* the number the next extractor constructed gets
    tpc,                 \* position of each thread in its cache or extractor call
    targ,                \* the argument of the call each thread is in
    held,                \* the extractor get_or_create last returned to each thread
    clr_todo,            \* clear: the entries its iteration has not visited yet
    clr_size,            \* clear: the size of the dictionary when its iteration began
    torn,                \* whether an iteration saw the dictionary change size
    mistral_output_dir,  \* extractor workspace: self.mistral_output_dir of the extractor of each PDF
    x_state,             \* extractor workspace: "new", "processed" (_processed set) or "cleaned" (cleanup called)
    disk,                \* extractor workspace: the (directory, PDF name) outputs on disk
    video_temp,          \* create_video: the temporary directory of each running invocation, 0 if none
    text_chunks,         \* generate_slides_content: len(text_chunks)
    max_slides,          \* generate_slides_content: the number of slides asked for
    chunk_i,             \* generate_slides_content: 0-based index of the next chunk
    remaining_slides,    \* generate_slides_content: remaining_slides
    all_slides,          \* generate_slides_content: len(all_slides)
    requested_total,     \* generate_slides_content: sum of the chunk_slides asked of the collaborator
    chunk_succeeded,     \* generate_slides_content: whether some chunk request gave slides
    gpc,                 \* generate_slides_content: "off", "chunks", "summary" or "done"
    plan_saved,          \* generate_slides_content: slides in the plan file, -1 while none is written
    slide_counter,       \* generate_slides_content: slide_counter
    slide_numbers,       \* generate_slides_content: the "slide number" of each slide of all_slides, in order
    handler,             \* response handling: which caller handles the response ("" while none)
    response,            \* response handling: the collaborator's raw response, a sequence of characters
    json_str,            \* response handling: the text last handed to json.loads
    parsed,              \* response handling: what json.loads made of json_str
    diag,                \* response handling: the diagnostic file ("", "written" or "failed")
    plan_stage,          \* response handling: how the planning stage went on ("" while it has not)
    lib_call,            \* library call: the function called ("" while none)
    lib_in,              \* library call: its arguments
    lib_out             \* library call: what it returned or changed

ctlVars == <<app, slides_only, processing_status, processing_started,
             processing_complete, processing_failed, output_paths, pc>>

vidVars == <<slides_data, audio_dir, frames_dir, vpc, png_files, audio_files,
             standardized_audio_files, individual_clips, loop_i, audio_result,
             temp_dir, video_result, video_message, encoder_calls, last_call,
             output_video>>

\* The variables of the library functions checked on their own.
namVars == <<name_n, name_order>>

retryVars == <<client, max_retries, initial_backoff, attempt, request_log,
               sleeps, rpc, retry_result>>

cacheVars == <<cache, cache_lock, cache_gen, extractors, next_id, tpc, targ,
               held, clr_todo, clr_size, torn>>

\* The variables of the planning library and of the workspaces.
wsVars == <<mistral_output_dir, x_state, disk, video_temp>>

planVars == <<text_chunks, max_slides, chunk_i, remaining_slides, all_slides, requested_total, chunk_succeeded, gpc, plan_saved, slide_counter, slide_numbers>>

repVars == <<handler, response, json_str, parsed, diag, plan_stage>>

callVars == <<lib_call, lib_in, lib_out>>

lib2Vars == <<wsVars, planVars, repVars, callVars>>

libVars == <<namVars, retryVars, cacheVars, lib2Vars>>

vars == <<ctlVars, vidVars, libVars>>

Apps == {"enhanced", "fixed", "orig"}

Stages == {"text_extraction", "figure_extraction", "llm_processing",
           "markdown_generation", "audio_generation", "slide_rendering",
           "video_creation"}

Statuses == {"pending", "processing", "complete", "error", "skipped"}

PathKeys == {"figures_metadata", "slides_json", "deck_md", "audio_dir",
             "frames_dir", "video"}

InitialStatus == [s \in Stages |-> "pending"]

InitialPaths == [k \in PathKeys |-> ""]

\* Python truthiness of a path value: "" and None are falsy.
Truthy(v) == v = "path"

(***************************************************************************)
(* Outcomes of the stage operations.                                       *)
(***************************************************************************)

\* extract_text_from_pdf returns the text or raises.
ExtractTextOutcomes == {"ok", "raise"}

\* extract_figures returns the metadata path (verified to exist) or raises.
ExtractFiguresOutcomes == {"ok", "raise"}

\* generate_slides_content returns the plan path, returns None when a chunk
\* yields no slides, or raises (no chunks, plan not writable).
GenerateSlidesOutcomes == {"path", "none", "raise"}

\* convert_to_marp raises unless the plan path names an existing file.
ConvertToMarpOutcomes(json) == IF json = "path" THEN {"ok", "raise"} ELSE {"raise"}

\* generate_audio(slides_json_path, output_dir): both parameters are
\* required, a call without output_dir raises TypeError; with it the call
\* raises when the credential is missing, the plan cannot be read or any
\* TTS call or file write fails.
GenerateAudioOutcomes(has_output_dir, json) ==
    IF has_output_dir /\ json = "path" THEN {"ok", "raise"} ELSE {"raise"}

\* render_slides(marp_md_path, frames_dir=None).  The enhanced script passes
\* progress_callback=update_progress_from_renderer: the name is defined
\* nowhere (NameError when the argument is evaluated) and render_slides has
\* no such parameter, so that call always raises.
RenderSlidesOutcomes(call_matches) ==
    IF call_matches THEN {"ok", "raise"} ELSE {"raise"}

\* create_video returns the video path, returns None (any failure inside its
\* try block) or raises RuntimeError (ffmpeg not installed).
CreateVideoOutcomes == {"path", "none", "raise"}

SetStatus(st, stage, v) == [st EXCEPT ![stage] = v]

(***************************************************************************)
(* streamlit_app_enhanced.py                                               *)
(***************************************************************************)

\* The guard of the processing block.
Active == processing_started /\ ~processing_complete

E_ClickStart ==
    /\ app = "enhanced"
    /\ pc = "idle"
    /\ ~processing_started /\ ~processing_complete
    /\ processing_started' = TRUE
    /\ processing_complete' = FALSE
    /\ processing_failed' = FALSE
    /\ processing_status' = InitialStatus
    /\ pc' = "run"
    /\ UNCHANGED <<vidVars, libVars>>
    /\ UNCHANGED <<app, slides_only, output_paths>>

\* The Stop button; the rerun it requests finds the processing block
\* disabled and only redraws the page.
E_ClickStop ==
    /\ app = "enhanced"
    /\ pc = "idle"
    /\ Active
    /\ processing_started' = FALSE
    /\ UNCHANGED <<vidVars, libVars>>
    /\ UNCHANGED <<app, slides_only, processing_status, processing_complete,
                   processing_failed, output_paths, pc>>

\* Any other widget interaction while a run is unfinished reruns the script.
E_WidgetRerun ==
    /\ app = "enhanced"
    /\ pc = "idle"
    /\ Active
    /\ pc' = "run"
    /\ UNCHANGED <<vidVars, libVars>>
    /\ UNCHANGED <<app, slides_only, processing_status, processing_started,
                   processing_complete, processing_failed, output_paths>>

E_Running == app = "enhanced" /\ pc = "run" /\ Active

\* Step 1: Extract text.
E_Step1 ==
    /\ E_Running
    /\ processing_status["text_extraction"] = "pending"
    /\ \E r \in ExtractTextOutcomes :
         IF r = "ok"
         THEN /\ processing_status' = SetStatus(processing_status, "text_extraction", "complete")
              /\ pc' = "run"
         ELSE /\ processing_status' = SetStatus(processing_status, "text_extraction", "processing")
              /\ pc' = "idle"
    /\ UNCHANGED <<vidVars, libVars>>
    /\ UNCHANGED <<app, slides_only, processing_started, processing_complete,
                   processing_failed, output_paths>>

\* Step 2: Extract figures (extract_figures_with_progress).
E_Step2 ==
    /\ E_Running
    /\ processing_status["text_extraction"] # "pending"
    /\ processing_status["figure_extraction"] = "pending"
    /\ \E r \in ExtractFiguresOutcomes :
         IF r = "ok"
         THEN /\ processing_status' = SetStatus(processing_status, "figure_extraction", "complete")
              /\ output_paths' = [output_paths EXCEPT !["figures_metadata"] = "path"]
         ELSE /\ processing_status' = SetStatus(processing_status, "figure_extraction", "error")
              /\ UNCHANGED output_paths
    /\ pc' = "run"
    /\ UNCHANGED <<vidVars, libVars>>
    /\ UNCHANGED <<app, slides_only, processing_started, processing_complete,
                   processing_failed>>

E_Before3 ==
    /\ processing_status["text_extraction"] # "pending"
    /\ processing_status["figure_extraction"] # "pending"

\* Step 3: Generate slide content.
E_Step3 ==
    /\ E_Running
    /\ E_Before3
    /\ processing_status["llm_processing"] = "pending"
    /\ \E r \in GenerateSlidesOutcomes :
         IF r = "raise"
         THEN /\ processing_status' = SetStatus(processing_status, "llm_processing", "processing")
              /\ UNCHANGED output_paths
              /\ pc' = "idle"
         ELSE /\ output_paths' = [output_paths EXCEPT !["slides_json"] = r]
              /\ processing_status' = SetStatus(processing_status, "llm_processing", "complete")
              /\ pc' = "run"
    /\ UNCHANGED <<vidVars, libVars>>
    /\ UNCHANGED <<app, slides_only, processing_started, processing_complete,
                   processing_failed>>

E_Before4 == E_Before3 /\ processing_status["llm_processing"] # "pending"

\* Step 4: Create Marp slides.
E_Step4 ==
    /\ E_Running
    /\ E_Before4
    /\ processing_status["markdown_generation"] = "pending"
    /\ \E r \in ConvertToMarpOutcomes(output_paths["slides_json"]) :
         IF r = "ok"
         THEN /\ output_paths' = [output_paths EXCEPT !["deck_md"] = "path"]
              /\ processing_status' = SetStatus(processing_status, "markdown_generation", "complete")
              /\ pc' = "run"
         ELSE /\ processing_status' = SetStatus(processing_status, "markdown_generation", "processing")
              /\ UNCHANGED output_paths
              /\ pc' = "idle"
    /\ UNCHANGED <<vidVars, libVars>>
    /\ UNCHANGED <<app, slides_only, processing_started, processing_complete,
                   processing_failed>>

E_Before5 == E_Before4 /\ processing_status["markdown_generation"] # "pending"

\* Step 5: Generate audio.
E_Step5 ==
    /\ E_Running
    /\ E_Before5
    /\ ~slides_only
    /\ processing_status["audio_generation"] = "pending"
    /\ \E r \in GenerateAudioOutcomes(TRUE, output_paths["slides_json"]) :
         IF r = "ok"
         THEN /\ output_paths' = [output_paths EXCEPT !["audio_dir"] = "path"]
              /\ processing_status' = SetStatus(processing_status, "audio_generation", "complete")
              /\ pc' = "run"
         ELSE /\ processing_status' = SetStatus(processing_status, "audio_generation", "processing")
              /\ UNCHANGED output_paths
              /\ pc' = "idle"
    /\ UNCHANGED <<vidVars, libVars>>
    /\ UNCHANGED <<app, slides_only, processing_started, processing_complete,
                   processing_failed>>

E_Before6 == E_Before5 /\ processing_status["audio_generation"] # "pending"

\* Step 6: Render slides to images.
E_Step6 ==
    /\ E_Running
    /\ E_Before6
    /\ ~slides_only
    /\ processing_status["slide_rendering"] = "pending"
    /\ \E r \in RenderSlidesOutcomes(FALSE) :
         IF r = "ok"
         THEN /\ output_paths' = [output_paths EXCEPT !["frames_dir"] = "path"]
              /\ processing_status' = SetStatus(processing_status, "slide_rendering", "complete")
              /\ UNCHANGED processing_failed
         ELSE /\ processing_status' = SetStatus(processing_status, "slide_rendering", "error")
              /\ processing_failed' = TRUE
              /\ UNCHANGED output_paths
    /\ pc' = "run"
    /\ UNCHANGED <<vidVars, libVars>>
    /\ UNCHANGED <<app, slides_only, processing_started, processing_complete>>

\* all_done of the enhanced script: every stage complete or skipped.
AllDone(st) == \A s \in Stages : st[s] \in {"complete", "skipped"}

\* Step 7 (Create video, create_video_with_progress) and the all_done check:
\* the rest of a script run in which steps 1-6 have nothing left to do.
E_Tail ==
    /\ E_Running
    /\ E_Before5
    /\ slides_only \/ (processing_status["audio_generation"] # "pending"
                       /\ processing_status["slide_rendering"] # "pending")
    /\ \E r \in CreateVideoOutcomes :
         LET step7   == /\ ~slides_only
                        /\ ~processing_failed
                        /\ processing_status["video_creation"] = "pending"
             have    == Truthy(output_paths["audio_dir"]) /\ Truthy(output_paths["frames_dir"])
             st7     == IF ~step7 THEN processing_status
                        ELSE IF ~have THEN SetStatus(processing_status, "video_creation", "skipped")
                        ELSE IF r = "path" THEN SetStatus(processing_status, "video_creation", "complete")
                        ELSE SetStatus(processing_status, "video_creation", "error")
             called  == step7 /\ have
         IN  /\ processing_status' = st7
             /\ output_paths' = IF called /\ r # "raise"
                                THEN [output_paths EXCEPT !["video"] = r]
                                ELSE output_paths
             /\ processing_failed' = IF called /\ r # "path" THEN TRUE ELSE processing_failed
             /\ IF called /\ r = "path"
                THEN /\ pc' = "run"
                     /\ UNCHANGED processing_complete
                ELSE /\ processing_complete' = AllDone(st7)
                     /\ pc' = "idle"
    /\ UNCHANGED <<vidVars, libVars>>
    /\ UNCHANGED <<app, slides_only, processing_started>>

(***************************************************************************)
(* streamlit_app_fixed.py: one script run executes the whole block.        *)
(***************************************************************************)

F_ClickStart ==
    /\ app = "fixed"
    /\ pc = "idle"
    /\ ~processing_started
    /\ processing_started' = TRUE
    /\ pc' = "f1"
    /\ UNCHANGED <<vidVars, libVars>>
    /\ UNCHANGED <<app, slides_only, processing_status, processing_complete,
                   processing_failed, output_paths>>

\* 1. Text extraction
F_Text ==
    /\ app = "fixed" /\ pc = "f1"
    /\ \E r \in ExtractTextOutcomes :
         IF r = "ok"
         THEN /\ processing_status' = SetStatus(processing_status, "text_extraction", "complete")
              /\ UNCHANGED processing_complete
         ELSE /\ processing_status' = SetStatus(processing_status, "text_extraction", "error")
              /\ processing_complete' = TRUE
    /\ pc' = "f2"
    /\ UNCHANGED <<vidVars, libVars>>
    /\ UNCHANGED <<app, slides_only, processing_started, processing_failed, output_paths>>

\* 2. Figure extraction
F_Figures ==
    /\ app = "fixed" /\ pc = "f2"
    /\ \E r \in ExtractFiguresOutcomes :
         IF processing_status["text_extraction"] # "complete"
         THEN UNCHANGED <<processing_status, processing_complete, output_paths>>
         ELSE IF r = "ok"
         THEN /\ output_paths' = [output_paths EXCEPT !["figures_metadata"] = "path"]
              /\ processing_status' = SetStatus(processing_status, "figure_extraction", "complete")
              /\ UNCHANGED processing_complete
         ELSE /\ processing_status' = SetStatus(processing_status, "figure_extraction", "error")
              /\ processing_complete' = TRUE
              /\ UNCHANGED output_paths
    /\ pc' = "f3"
    /\ UNCHANGED <<vidVars, libVars>>
    /\ UNCHANGED <<app, slides_only, processing_started, processing_failed>>

\* 3. LLM processing: open(slides_json_path) raises on None.
F_LLM ==
    /\ app = "fixed" /\ pc = "f3"
    /\ \E r \in GenerateSlidesOutcomes :
         IF processing_status["figure_extraction"] # "complete"
         THEN UNCHANGED <<processing_status, processing_complete, output_paths>>
         ELSE IF r = "path"
         THEN /\ output_paths' = [output_paths EXCEPT !["slides_json"] = "path"]
              /\ processing_status' = SetStatus(processing_status, "llm_processing", "complete")
              /\ UNCHANGED processing_complete
         ELSE /\ output_paths' = IF r = "none"
                                 THEN [output_paths EXCEPT !["slides_json"] = "none"]
                                 ELSE output_paths
              /\ processing_status' = SetStatus(processing_status, "llm_processing", "error")
              /\ processing_complete' = TRUE
    /\ pc' = "f4"
    /\ UNCHANGED <<vidVars, libVars>>
    /\ UNCHANGED <<app, slides_only, processing_started, processing_failed>>

\* 4. Markdown generation
F_Markdown ==
    /\ app = "fixed" /\ pc = "f4"
    /\ \E r \in ConvertToMarpOutcomes(output_paths["slides_json"]) :
         IF processing_status["llm_processing"] # "complete"
         THEN UNCHANGED <<processing_status, processing_complete, output_paths>>
         ELSE IF r = "ok"
         THEN /\ output_paths' = [output_paths EXCEPT !["deck_md"] = "path"]
              /\ processing_status' = SetStatus(processing_status, "markdown_generation", "complete")
              /\ UNCHANGED processing_complete
         ELSE /\ processing_status' = SetStatus(processing_status, "markdown_generation", "error")
              /\ processing_complete' = TRUE
              /\ UNCHANGED output_paths
    /\ pc' = "f5"
    /\ UNCHANGED <<vidVars, libVars>>
    /\ UNCHANGED <<app, slides_only, processing_started, processing_failed>>

\* Variant: the slides-only branch marks slide rendering skipped too.
F_SlidesOnlyBranch_SkipsRendering(st, paths, r) ==
    LET st1 == SetStatus(st, "slide_rendering", "skipped")
        st2 == SetStatus(st1, "audio_generation", "skipped")
    IN  [status   |-> SetStatus(st2, "video_creation", "skipped"),
         paths    |-> paths,
         complete |-> TRUE]

\* Variant: the slides-only branch forgets to mark the run complete.
F_SlidesOnlyBranch_NotMarkedDone(st, paths, r) ==
    LET st1 == SetStatus(st, "slide_rendering", IF r = "ok" THEN "complete" ELSE "error")
        st2 == SetStatus(st1, "audio_generation", "skipped")
    IN  [status   |-> SetStatus(st2, "video_creation", "skipped"),
         paths    |-> IF r = "ok" THEN [paths EXCEPT !["frames_dir"] = "path"] ELSE paths,
         complete |-> FALSE]

\* The slides-only branch of the fixed script: render, then mark audio and
\* video skipped and the run complete.
F_SlidesOnlyBranch(st, paths, r) ==
    LET st1 == SetStatus(st, "slide_rendering", IF r = "ok" THEN "complete" ELSE "error")
        st2 == SetStatus(st1, "audio_generation", "skipped")
    IN  [status   |-> SetStatus(st2, "video_creation", "skipped"),
         paths    |-> IF r = "ok" THEN [paths EXCEPT !["frames_dir"] = "path"] ELSE paths,
         complete |-> TRUE]

\* "Skip remaining steps if slides_only is checked" / 5. Audio generation
F_SlidesOnlyOrAudio ==
    /\ app = "fixed" /\ pc = "f5"
    /\ \E rr \in RenderSlidesOutcomes(TRUE),
          ra \in GenerateAudioOutcomes(FALSE, output_paths["slides_json"]) :
         IF processing_status["markdown_generation"] # "complete"
         THEN UNCHANGED <<processing_status, processing_complete, output_paths>>
         ELSE IF slides_only
         THEN LET b == F_SlidesOnlyBranch(processing_status, output_paths, rr)
              IN  /\ processing_status' = b.status
                  /\ output_paths' = b.paths
                  /\ processing_complete' = b.complete
         ELSE IF ra = "ok"
         THEN /\ output_paths' = [output_paths EXCEPT !["audio_dir"] = "path"]
              /\ processing_status' = SetStatus(processing_status, "audio_generation", "complete")
              /\ UNCHANGED processing_complete
         ELSE /\ processing_status' = SetStatus(processing_status, "audio_generation", "error")
              /\ processing_complete' = TRUE
              /\ UNCHANGED output_paths
    /\ pc' = "f6"
    /\ UNCHANGED <<vidVars, libVars>>
    /\ UNCHANGED <<app, slides_only, processing_started, processing_failed>>

\* 6. Slide rendering
F_Render ==
    /\ app = "fixed" /\ pc = "f6"
    /\ \E r \in RenderSlidesOutcomes(TRUE) :
         IF processing_status["audio_generation"] # "complete"
         THEN UNCHANGED <<processing_status, processing_complete, output_paths>>
         ELSE IF r = "ok"
         THEN /\ output_paths' = [output_paths EXCEPT !["frames_dir"] = "path"]
              /\ processing_status' = SetStatus(processing_status, "slide_rendering", "complete")
              /\ UNCHANGED processing_complete
         ELSE /\ processing_status' = SetStatus(processing_status, "slide_rendering", "error")
              /\ processing_complete' = TRUE
              /\ UNCHANGED output_paths
    /\ pc' = "f7"
    /\ UNCHANGED <<vidVars, libVars>>
    /\ UNCHANGED <<app, slides_only, processing_started, processing_failed>>

\* 7. Video creation.  create_video(frames_dir, audio_dir) reads the script
\* variable audio_dir, which only step 5 assigns: after the slides-only
\* branch the name is unbound and evaluating the call raises NameError.
F_Video ==
    /\ app = "fixed" /\ pc = "f7"
    /\ \E r \in CreateVideoOutcomes :
         IF processing_status["slide_rendering"] # "complete"
         THEN UNCHANGED <<processing_status, processing_complete, output_paths>>
         ELSE LET bound == processing_status["audio_generation"] = "complete"
                  res   == IF bound THEN r ELSE "raise"
              IN  /\ output_paths' = IF res = "raise" THEN output_paths
                                     ELSE [output_paths EXCEPT !["video"] = res]
                  /\ processing_status' =
                       SetStatus(processing_status, "video_creation",
                                 IF res = "raise" THEN "error" ELSE "complete")
                  /\ processing_complete' = TRUE
    /\ pc' = "idle"
    /\ UNCHANGED <<vidVars, libVars>>
    /\ UNCHANGED <<app, slides_only, processing_started, processing_failed>>

(***************************************************************************)
(* streamlit_app.py: process_pdf, called in the run the Start button       *)
(* starts.                                                                 *)
(***************************************************************************)

\* The Start button is offered when no stage is processing; process_pdf
\* begins with 1. Text extraction.
O_ClickStart ==
    /\ app = "orig"
    /\ pc = "idle"
    /\ \A s \in Stages : processing_status[s] # "processing"
    /\ \E r \in ExtractTextOutcomes :
         IF r = "ok"
         THEN /\ processing_status' = SetStatus(processing_status, "text_extraction", "complete")
              /\ pc' = "o2"
         ELSE /\ processing_status' = SetStatus(processing_status, "text_extraction", "error")
              /\ pc' = "idle"
    /\ UNCHANGED <<vidVars, libVars>>
    /\ UNCHANGED <<app, slides_only, processing_started, processing_complete,
                   processing_failed, output_paths>>

\* 2. Figure extraction: the status is set to processing and
\* st.experimental_rerun() ends the script run before extract_figures is
\* called; in the rerun the button is not clicked, process_pdf is not called.
O_FigureExtraction ==
    /\ app = "orig"
    /\ pc = "o2"
    /\ processing_status' = SetStatus(processing_status, "figure_extraction", "processing")
    /\ pc' = "idle"
    /\ UNCHANGED <<vidVars, libVars>>
    /\ UNCHANGED <<app, slides_only, processing_started, processing_complete,
                   processing_failed, output_paths>>

(***************************************************************************)
(* The slide plan, narration synthesis and slide rendering.                *)
(*                                                                         *)
(* A file is a record: name is the digit string of its file name (the only *)
(* part in which two files of one directory differ), slide the number of   *)
(* the slide it belongs to, and, for audio, dur the length of the          *)
(* narration it holds.  A narration text is modelled by its length: 0 is   *)
(* the empty string, the only falsy one.                                   *)
(***************************************************************************)

\* Longest slide plan considered.
MaxSlides == 3

\* Longest narration considered.
MaxNarr == 2

\* Most audio files in a directory create_video is handed directly.
MaxAudio == 5

\* Most frames in a directory create_video is handed directly.
MaxFrames == 4

\* generate_slides_content numbers the slides of the plan it saves 1, 2, ...
\* in array order (slide["slide number"] = slide_counter).
PlanOf(narr) ==
    [i \in 1..Len(narr) |-> [slide_number |-> i, audio |-> narr[i]]]

Plans ==
    {PlanOf(narr) : narr \in UNION {[1..k -> 0..MaxNarr] : k \in 1..MaxSlides}}

RECURSIVE Digits(_)
\* str(n) for a non-negative integer, as a sequence of digits.
Digits(n) == IF n < 10 THEN <<n>> ELSE Append(Digits(n \div 10), n % 10)

\* f"{n:0{w}d}": zero-padded to at least w digits, never truncated.
Pad(n, w) ==
    LET d == Digits(n)
    IN IF Len(d) >= w THEN d ELSE [i \in 1..(w - Len(d)) |-> 0] \o d

\* slide{slide_num:02d}.wav
AudioFile(slide_num, dur) ==
    [name |-> Pad(slide_num, 2), slide |-> slide_num, dur |-> dur]

\* deck.001.png, deck.002.png, ...: the k-th frame shows the k-th slide of
\* the deck.
FrameFile(k, slide_num) ==
    [name |-> Pad(k, 3), slide |-> slide_num]

\* String comparison of two file names that differ in their digits only.  A
\* name whose digits are a proper prefix of the other's continues with ".",
\* which sorts before every digit.
LexLess(a, b) ==
    LET n == IF Len(a) < Len(b) THEN Len(a) ELSE Len(b)
        diff == {i \in 1..n : a[i] # b[i]}
    IN IF diff = {}
       THEN Len(a) < Len(b)
       ELSE LET k == CHOOSE i \in diff : \A j \in diff : i <= j
            IN a[k] < b[k]

RECURSIVE SortedFiles(_)
\* sorted(dir.glob(pattern)): the files of a directory in file-name order.
SortedFiles(files) ==
    IF files = {} THEN <<>>
    ELSE LET first == CHOOSE f \in files :
                          \A g \in files \ {f} : LexLess(f.name, g.name)
         IN <<first>> \o SortedFiles(files \ {first})

\* Writing a file replaces the file of the same name.
WriteFile(dir, file) == {f \in dir : f.name # file.name} \cup {file}

RECURSIVE WriteAudio(_, _, _)
\* The loop of generate_audio over slides 1..upto of the plan: a slide whose
\* narration is empty is skipped, every other one gets its file.
WriteAudio(dir, plan, upto) ==
    IF upto = 0 THEN dir
    ELSE LET before == WriteAudio(dir, plan, upto - 1)
             slide_info == plan[upto]
         IN IF slide_info.audio = 0
            THEN before
            ELSE WriteFile(before,
                           AudioFile(slide_info.slide_number, slide_info.audio))

RECURSIVE SortedSlides(_)
\* json2marp: the slides of the plan sorted by slide number (stable).
SortedSlides(plan) ==
    IF Len(plan) = 0 THEN <<>>
    ELSE LET k == CHOOSE i \in 1..Len(plan) :
                      /\ \A j \in 1..Len(plan) :
                             plan[i].slide_number <= plan[j].slide_number
                      /\ \A j \in 1..(i - 1) :
                             plan[j].slide_number # plan[i].slide_number
             rest == [j \in 1..(Len(plan) - 1) |->
                          IF j < k THEN plan[j] ELSE plan[j + 1]]
         IN <<plan[k]>> \o SortedSlides(rest)

\* marp renders one frame per slide of the deck, in deck order.
RenderedFrames(plan) ==
    LET deck == SortedSlides(plan)
    IN {FrameFile(k, deck[k].slide_number) : k \in 1..Len(deck)}

\* generate_audio(slides_json_path, output_dir).  has_key: SARVAM_API_KEY is
\* set.  fail_at: the first slide whose text-to-speech call raises
\* (Len + 1: none does); the exception leaves the loop and is re-raised.
generate_audio(has_key, fail_at) ==
    /\ vpc = "plan"
    /\ IF ~has_key
       THEN /\ audio_result' = "raise"
            /\ vpc' = "done"
            /\ UNCHANGED audio_dir
       ELSE IF fail_at <= Len(slides_data)
       THEN /\ audio_dir' = WriteAudio(audio_dir, slides_data, fail_at - 1)
            /\ audio_result' = "raise"
            /\ vpc' = "done"
       ELSE /\ audio_dir' = WriteAudio(audio_dir, slides_data, Len(slides_data))
            /\ audio_result' = "path"
            /\ vpc' = "narrated"
    /\ UNCHANGED <<slides_data, frames_dir, png_files, audio_files,
                   standardized_audio_files, individual_clips, loop_i,
                   temp_dir, video_result, video_message, encoder_calls,
                   last_call, output_video>>
    /\ UNCHANGED <<ctlVars, libVars>>

GenerateAudio ==
    \E has_key \in BOOLEAN :
        \E fail_at \in {i \in 1..Len(slides_data) : slides_data[i].audio # 0}
                       \cup {Len(slides_data) + 1} :
            generate_audio(has_key, fail_at)

\* What an external tool does once started: exit 0, exit non-zero, or never
\* exit.
ToolBehaviours == {"ok", "fail", "hang"}

\* subprocess.run / subprocess.check_output: with no timeout argument the
\* call waits for the child for ever; with one it raises TimeoutExpired.
SubprocessRun(timeout, behaviour) ==
    IF behaviour = "hang"
    THEN IF timeout THEN "timeout" ELSE "blocked"
    ELSE behaviour

\* convert_to_marp and render_slides on the plan: the frames of the deck, or
\* an exception that ends the pipeline.  The marp subprocess is run without
\* a timeout: if it never exits, render_slides never returns.
RenderSlides ==
    /\ vpc = "narrated"
    /\ \E behaviour \in ToolBehaviours :
           LET result == SubprocessRun(FALSE, behaviour)
           IN IF result = "blocked"
              THEN /\ vpc' = "render_blocked"
                   /\ UNCHANGED frames_dir
              ELSE IF result = "ok"
              THEN /\ frames_dir' = RenderedFrames(slides_data)
                   /\ vpc' = "ready"
              ELSE /\ vpc' = "done"
                   /\ UNCHANGED frames_dir
    /\ UNCHANGED <<slides_data, audio_dir, audio_result, png_files, audio_files,
                   standardized_audio_files, individual_clips, loop_i,
                   temp_dir, video_result, video_message, encoder_calls,
                   last_call, output_video>>
    /\ UNCHANGED <<ctlVars, libVars>>

(***************************************************************************)
(* processors/video_creator.py: create_video, one action per encoder call. *)
(***************************************************************************)

\* The failures create_video reports through update_progress.
EncoderFailures == {"standardize", "probe", "clip", "concat"}

\* What float(duration_output) makes of the text ffprobe printed: a positive
\* number, 0.0, a negative number, nan, or ValueError (no number printed).
ProbeOutputs == {"positive", "zero", "negative", "nan", "unreadable"}

\* No call of the encoder has been made yet.
NoCall == [cmd |-> "", t |-> ""]

\* ReturnNone that hands back the output path all the same.
ReturnNone_ReturnsPath(message) ==
    /\ video_message' = message
    /\ video_result' = "path"
    /\ temp_dir' = FALSE
    /\ vpc' = "done"

\* ReturnNone without the finally clause.
ReturnNone_KeepsWorkspace(message) ==
    /\ video_message' = message
    /\ video_result' = "none"
    /\ temp_dir' = temp_dir
    /\ vpc' = "done"

\* The except / finally of create_video: the failure is reported, the
\* temporary workspace is removed and None is returned.
ReturnNone(message) ==
    /\ video_message' = message
    /\ video_result' = "none"
    /\ temp_dir' = FALSE
    /\ vpc' = "done"

\* MissingInput that lets an empty audio listing through.
MissingInput_IgnoresAudio(frames, audio) ==
    IF frames = {} THEN "no_png" ELSE ""

\* Lines 55-58: the FileNotFoundError raised for an empty listing ("" when
\* both listings have files).
MissingInput(frames, audio) ==
    IF frames = {} THEN "no_png"
    ELSE IF audio = {} THEN "no_audio"
    ELSE ""

\* A subprocess call without timeout whose child never exits: create_video
\* never returns.
Blocked ==
    /\ vpc' = "blocked"
    /\ UNCHANGED <<video_result, video_message, temp_dir>>

\* Lines 36-58: the ffmpeg check, the temporary workspace and the two sorted
\* listings.  Without ffmpeg the function raises before the workspace is
\* made.
V_Start ==
    /\ vpc = "ready"
    /\ \E ffmpeg_path \in BOOLEAN :
           IF ~ffmpeg_path
           THEN /\ video_result' = "raise"
                /\ video_message' = "ffmpeg"
                /\ vpc' = "done"
                /\ UNCHANGED <<png_files, audio_files, temp_dir>>
           ELSE /\ png_files' = SortedFiles(frames_dir)
                /\ audio_files' = SortedFiles(audio_dir)
                /\ IF MissingInput(frames_dir, audio_dir) # ""
                   THEN ReturnNone(MissingInput(frames_dir, audio_dir))
                   ELSE /\ temp_dir' = TRUE
                        /\ vpc' = "standardize"
                        /\ UNCHANGED <<video_result, video_message>>
    /\ UNCHANGED <<slides_data, audio_dir, frames_dir, audio_result,
                   standardized_audio_files, individual_clips, loop_i,
                   encoder_calls, last_call, output_video>>
    /\ UNCHANGED <<ctlVars, libVars>>

\* Lines 63-96: one pass of the standardisation loop.
V_Standardize ==
    /\ vpc = "standardize"
    /\ encoder_calls' = encoder_calls + 1
    /\ last_call' = [cmd |-> "standardize", t |-> ""]
    /\ LET audio_file == audio_files[Len(standardized_audio_files) + 1]
       IN \E behaviour \in ToolBehaviours :
           LET result == SubprocessRun(FALSE, behaviour)
           IN IF result = "blocked"
              THEN /\ Blocked
                   /\ UNCHANGED standardized_audio_files
              ELSE IF result # "ok"
              THEN /\ ReturnNone("standardize")
                   /\ UNCHANGED standardized_audio_files
              ELSE /\ standardized_audio_files' =
                          Append(standardized_audio_files, audio_file)
                   /\ vpc' = IF Len(standardized_audio_files) + 1 = Len(audio_files)
                             THEN "clips" ELSE "standardize"
                   /\ UNCHANGED <<video_result, video_message, temp_dir>>
    /\ UNCHANGED <<slides_data, audio_dir, frames_dir, audio_result, png_files,
                   audio_files, individual_clips, loop_i, output_video>>
    /\ UNCHANGED <<ctlVars, libVars>>

\* ClipFor with the frame after the one the loop index names.
ClipFor_NextFrame(i) ==
    [name |-> Pad(i, 2),
     png |-> png_files[IF i < Len(png_files) THEN i + 1 ELSE i],
     audio |-> standardized_audio_files[i],
     duration |-> standardized_audio_files[i].dur]

\* Lines 109-132: the clip of pass i (1-based) of the clip loop.
ClipFor(i) ==
    [name |-> Pad(i, 2),
     png |-> png_files[i],
     audio |-> standardized_audio_files[i],
     duration |-> standardized_audio_files[i].dur]

\* Lines 102-162: one pass of the clip loop.  probe: what ffprobe did;
\* duration_output: what float() makes of its output; behaviour: what the
\* encoder did.  The duration is handed to the encoder as it was parsed.
V_Clip ==
    /\ vpc = "clips"
    /\ \E probe \in ToolBehaviours, duration_output \in ProbeOutputs,
          behaviour \in ToolBehaviours :
           LET probed == SubprocessRun(FALSE, probe)
               result == SubprocessRun(FALSE, behaviour)
               encode == /\ encoder_calls' = encoder_calls + 1
                         /\ last_call' = [cmd |-> "clip", t |-> duration_output]
           IN IF Len(png_files) <= loop_i - 1
              THEN /\ loop_i' = loop_i + 1
                   /\ vpc' = IF loop_i = Len(standardized_audio_files)
                             THEN "concat" ELSE "clips"
                   /\ UNCHANGED <<individual_clips, video_result, video_message,
                                  temp_dir, encoder_calls, last_call>>
              ELSE IF probed = "blocked"
              THEN /\ Blocked
                   /\ UNCHANGED <<individual_clips, loop_i, encoder_calls,
                                  last_call>>
              ELSE IF probed # "ok" \/ duration_output = "unreadable"
              THEN /\ ReturnNone("probe")
                   /\ UNCHANGED <<individual_clips, loop_i, encoder_calls,
                                  last_call>>
              ELSE IF result = "blocked"
              THEN /\ encode
                   /\ Blocked
                   /\ UNCHANGED <<individual_clips, loop_i>>
              ELSE IF result # "ok"
              THEN /\ encode
                   /\ ReturnNone("clip")
                   /\ UNCHANGED <<individual_clips, loop_i>>
              ELSE /\ encode
                   /\ individual_clips' = Append(individual_clips, ClipFor(loop_i))
                   /\ loop_i' = loop_i + 1
                   /\ vpc' = IF loop_i = Len(standardized_audio_files)
                             THEN "concat" ELSE "clips"
                   /\ UNCHANGED <<video_result, video_message, temp_dir>>
    /\ UNCHANGED <<slides_data, audio_dir, frames_dir, audio_result, png_files,
                   audio_files, standardized_audio_files, output_video>>
    /\ UNCHANGED <<ctlVars, libVars>>

\* Lines 164-217: no clip at all returns None; otherwise the clips are
\* concatenated; the temporary workspace is removed on every path.  A failed
\* concatenation may leave a partial file at the output path; nothing
\* removes it.
V_Concat ==
    /\ vpc = "concat"
    /\ \E behaviour \in ToolBehaviours, left \in {"absent", "partial"} :
           LET result == SubprocessRun(FALSE, behaviour)
               concat == /\ encoder_calls' = encoder_calls + 1
                         /\ last_call' = [cmd |-> "concat", t |-> ""]
           IN IF individual_clips = <<>>
              THEN /\ ReturnNone("no_clips")
                   /\ UNCHANGED <<encoder_calls, last_call, output_video>>
              ELSE IF result = "blocked"
              THEN /\ concat
                   /\ Blocked
                   /\ output_video' = left
              ELSE IF result # "ok"
              THEN /\ concat
                   /\ ReturnNone("concat")
                   /\ output_video' = left
              ELSE /\ concat
                   /\ output_video' = "written"
                   /\ video_result' = "path"
                   /\ temp_dir' = FALSE
                   /\ vpc' = "done"
                   /\ UNCHANGED video_message
    /\ UNCHANGED <<slides_data, audio_dir, frames_dir, audio_result, png_files,
                   audio_files, standardized_audio_files, individual_clips,
                   loop_i>>
    /\ UNCHANGED <<ctlVars, libVars>>

\* The values of the narration / video variables that no action of the
\* controllers reads.
VideoIdle ==
    /\ slides_data = <<>>
    /\ audio_dir = {}
    /\ frames_dir = {}
    /\ audio_result = ""
    /\ vpc = "off"
    /\ png_files = <<>>
    /\ audio_files = <<>>
    /\ standardized_audio_files = <<>>
    /\ individual_clips = <<>>
    /\ loop_i = 1
    /\ temp_dir = FALSE
    /\ video_result = ""
    /\ video_message = ""
    /\ encoder_calls = 0
    /\ last_call = NoCall
    /\ output_video = "absent"

(***************************************************************************)
(* The naming convention: slide{n:02d}.wav written by generate_audio,      *)
(* deck.{n:03d}.png written by marp, both listed with sorted() by          *)
(* create_video.  String order is a total order, so a sorted listing of    *)
(* the names of slides 1..N is in slide order exactly when the name of     *)
(* every slide sorts before the name of the next one.                      *)
(***************************************************************************)

\* Largest slide number named.
MaxNameNum == 999

\* The names of two slides have not been compared.
NotCompared == [audio |-> "", frame |-> ""]

\* Python's < on the two file names, as "before" / "after".
NameOrder(a, b) == IF LexLess(a, b) THEN "before" ELSE "after"

\* The audio and the frame file names of slide name_n are compared with
\* those of slide name_n + 1, as sorted() does.
CompareNames ==
    /\ name_order = NotCompared
    /\ name_order' =
           [audio |-> NameOrder(AudioFile(name_n, 1).name,
                                AudioFile(name_n + 1, 1).name),
            frame |-> NameOrder(FrameFile(name_n, name_n).name,
                                FrameFile(name_n + 1, name_n + 1).name)]
    /\ UNCHANGED name_n
    /\ UNCHANGED <<ctlVars, vidVars, retryVars, cacheVars, lib2Vars>>

(***************************************************************************)
(* The retrying API clients: analyze_image_with_gemini                     *)
(* (extract_images_llm.py), ocr_pdf under tenacity.retry                   *)
(* (extract_mistral_pdf.py) and call_llm (pdf2json.py).  A request ends    *)
(* "ok", with a rate-limit error ("429" in its text) or with any other     *)
(* error ("fatal": authentication, malformed request).  One action is one  *)
(* pass of the client's loop.                                              *)
(***************************************************************************)

RetryClients == {"analyze_image_with_gemini", "ocr_pdf", "call_llm"}

RequestOutcomes == {"ok", "rate_limit", "fatal"}

\* Largest max_retries argument considered (the default is 5).
MaxRetries == 5

\* Largest initial_backoff argument considered (the default is 2).
MaxBackoff == 2

\* tenacity.wait_exponential(multiplier=2, max=30)
OcrMultiplier == 2

OcrMaxWait == 30

\* tenacity.stop_after_attempt(5)
OcrAttempts == 5

\* for attempt in range(2)
LlmAttempts == 2

\* time.sleep(5)
LlmSleep == 5

RECURSIVE Pow2(_)
\* 2 ** k
Pow2(k) == IF k = 0 THEN 1 ELSE 2 * Pow2(k - 1)

\* Backoff growing by a fixed step.
Backoff_Linear(base, k) == base * (k + 1)

\* wait_time = initial_backoff * (2 ** attempt)
Backoff(base, k) == base * Pow2(k)

\* tenacity.wait_exponential: multiplier * 2 ** (attempt_number - 1), at most
\* max; k is the 0-based attempt, attempt_number - 1.
WaitExponential(multiplier, max, k) ==
    LET result == Backoff(multiplier, k)
    IN IF result < max THEN result ELSE max

\* The call ends.
RetryReturn(result) ==
    /\ retry_result' = result
    /\ rpc' = "done"
    /\ UNCHANGED <<attempt, sleeps>>

\* time.sleep(seconds) after the failure of this attempt, then the next pass.
SleepAndRetry(seconds, outcome) ==
    /\ sleeps' = Append(sleeps, [attempt |-> attempt, seconds |-> seconds,
                                 after |-> outcome])
    /\ attempt' = attempt + 1
    /\ UNCHANGED <<rpc, retry_result>>

\* analyze_image_with_gemini, lines 121-159: a rate-limit error before the
\* last attempt sleeps and retries; every other error returns no figures.
R_AnalyzeImage ==
    /\ client = "analyze_image_with_gemini"
    /\ rpc = "call"
    /\ attempt < max_retries
    /\ \E outcome \in RequestOutcomes :
           /\ request_log' = Append(request_log, outcome)
           /\ IF outcome = "ok"
              THEN RetryReturn("value")
              ELSE IF outcome = "rate_limit" /\ attempt < max_retries - 1
              THEN SleepAndRetry(Backoff(initial_backoff, attempt), outcome)
              ELSE RetryReturn("empty")
    /\ UNCHANGED <<client, max_retries, initial_backoff>>
    /\ UNCHANGED <<ctlVars, vidVars, namVars, cacheVars, lib2Vars>>

\* ocr_pdf under @tenacity.retry: every exception is retried (no retry=
\* predicate is given) until the attempt limit, then RetryError is raised.
R_OcrPdf ==
    /\ client = "ocr_pdf"
    /\ rpc = "call"
    /\ \E outcome \in RequestOutcomes :
           /\ request_log' = Append(request_log, outcome)
           /\ IF outcome = "ok"
              THEN RetryReturn("value")
              ELSE IF attempt + 1 >= OcrAttempts
              THEN RetryReturn("raise")
              ELSE SleepAndRetry(WaitExponential(OcrMultiplier, OcrMaxWait, attempt),
                                 outcome)
    /\ UNCHANGED <<client, max_retries, initial_backoff>>
    /\ UNCHANGED <<ctlVars, vidVars, namVars, cacheVars, lib2Vars>>

\* call_llm, lines 38-49: any exception on the first attempt sleeps 5
\* seconds and retries; on the second it is re-raised.
R_CallLlm ==
    /\ client = "call_llm"
    /\ rpc = "call"
    /\ attempt < LlmAttempts
    /\ \E outcome \in RequestOutcomes :
           /\ request_log' = Append(request_log, outcome)
           /\ IF outcome = "ok"
              THEN RetryReturn("value")
              ELSE IF attempt = 0
              THEN SleepAndRetry(LlmSleep, outcome)
              ELSE RetryReturn("raise")
    /\ UNCHANGED <<client, max_retries, initial_backoff>>
    /\ UNCHANGED <<ctlVars, vidVars, namVars, cacheVars, lib2Vars>>

(***************************************************************************)
(* processors/mistral_cache.py and processors/mistral_unified_extractor.py *)
(* The process-wide extraction cache, used by the threads of one process   *)
(* (Streamlit runs the script of every session in a thread of its own).    *)
(* A thread can be switched between any two statements, so every statement *)
(* that reads or writes shared state is a step.  An extractor is known by  *)
(* the number of its construction; 0 is "no extractor".                    *)
(***************************************************************************)
Threads == {1, 2}

MaxExtractors == 3

MaxOcrCalls == 2

RawPaths == {"paper.pdf", "./paper.pdf", "other.pdf"}

\* str(Path(pdf_path).resolve()): the absolute path of the file named.
Resolve(pdf_path) ==
    IF pdf_path = "other.pdf" THEN "/cwd/other.pdf" ELSE "/cwd/paper.pdf"

Keys == {Resolve(p) : p \in RawPaths}

ExtractorIds == 1..MaxExtractors

NoExtractor == [key |-> "", gen |-> 0, processed |-> FALSE, ocr |-> 0]

NotHeld == [id |-> 0, gen |-> 0, path |-> ""]

\* MistralExtractor.__init__: nothing is extracted yet.
MistralExtractor(pdf_key, generation) ==
    [key |-> pdf_key, gen |-> generation, processed |-> FALSE, ocr |-> 0]

\* Variant: the lock is never taken.
LockFree_Always == TRUE

\* threading.Lock: free when no thread holds it.
LockFree == cache_lock = 0

\* `with self._lock:` on entry.
Acquire(t) ==
    /\ LockFree
    /\ cache_lock' = t

\* `with self._lock:` on exit.
Release == cache_lock' = 0

\* The threads that may still construct an extractor in get_or_create.
Creating == {t \in Threads : tpc[t] \in {"goc_acquire", "goc_check", "goc_create"}}

\* get_or_create is called: pdf_key is computed, the lock is requested.
GetOrCreate_Call(t, pdf_path) ==
    /\ tpc[t] = "idle"
    /\ next_id + Cardinality(Creating) <= MaxExtractors
    /\ tpc' = [tpc EXCEPT ![t] = "goc_acquire"]
    /\ targ' = [targ EXCEPT ![t] = pdf_path]
    /\ UNCHANGED <<cache, cache_lock, cache_gen, extractors, next_id, held,
                   clr_todo, clr_size, torn>>
    /\ UNCHANGED <<ctlVars, vidVars, namVars, retryVars, lib2Vars>>

GetOrCreate_Acquire(t) ==
    /\ tpc[t] = "goc_acquire"
    /\ Acquire(t)
    /\ tpc' = [tpc EXCEPT ![t] = "goc_check"]
    /\ UNCHANGED <<cache, cache_gen, extractors, next_id, targ, held,
                   clr_todo, clr_size, torn>>
    /\ UNCHANGED <<ctlVars, vidVars, namVars, retryVars, lib2Vars>>

\* `if pdf_key not in self._cache:`
GetOrCreate_Check(t) ==
    /\ tpc[t] = "goc_check"
    /\ tpc' = [tpc EXCEPT ![t] = IF cache[Resolve(targ[t])] = 0
                                 THEN "goc_create" ELSE "goc_return"]
    /\ UNCHANGED <<cache, cache_lock, cache_gen, extractors, next_id, targ,
                   held, clr_todo, clr_size, torn>>
    /\ UNCHANGED <<ctlVars, vidVars, namVars, retryVars, lib2Vars>>

\* `self._cache[pdf_key] = MistralExtractor(pdf_path)`: the extractor is
\* constructed, then stored.
GetOrCreate_Create(t) ==
    /\ tpc[t] = "goc_create"
    /\ extractors' = [extractors EXCEPT ![next_id] =
           MistralExtractor(Resolve(targ[t]), cache_gen[Resolve(targ[t])])]
    /\ cache' = [cache EXCEPT ![Resolve(targ[t])] = next_id]
    /\ next_id' = next_id + 1
    /\ tpc' = [tpc EXCEPT ![t] = "goc_return"]
    /\ UNCHANGED <<cache_lock, cache_gen, targ, held, clr_todo, clr_size,
                   torn>>
    /\ UNCHANGED <<ctlVars, vidVars, namVars, retryVars, lib2Vars>>

\* `return self._cache[pdf_key]`, then the lock is released.  A key deleted
\* since the check is a KeyError: nothing is returned.
GetOrCreate_Return(t) ==
    /\ tpc[t] = "goc_return"
    /\ held' = [held EXCEPT ![t] =
           IF cache[Resolve(targ[t])] = 0 THEN NotHeld
           ELSE [id |-> cache[Resolve(targ[t])],
                 gen |-> cache_gen[Resolve(targ[t])],
                 path |-> targ[t]]]
    /\ Release
    /\ tpc' = [tpc EXCEPT ![t] = "idle"]
    /\ targ' = [targ EXCEPT ![t] = ""]
    /\ UNCHANGED <<cache, cache_gen, extractors, next_id, clr_todo, clr_size,
                   torn>>
    /\ UNCHANGED <<ctlVars, vidVars, namVars, retryVars, lib2Vars>>

\* remove is called: pdf_key is computed, the lock is requested.
Remove_Call(t, pdf_path) ==
    /\ tpc[t] = "idle"
    /\ tpc' = [tpc EXCEPT ![t] = "rm_acquire"]
    /\ targ' = [targ EXCEPT ![t] = pdf_path]
    /\ UNCHANGED <<cache, cache_lock, cache_gen, extractors, next_id, held,
                   clr_todo, clr_size, torn>>
    /\ UNCHANGED <<ctlVars, vidVars, namVars, retryVars, lib2Vars>>

Remove_Acquire(t) ==
    /\ tpc[t] = "rm_acquire"
    /\ Acquire(t)
    /\ tpc' = [tpc EXCEPT ![t] = "rm_locked"]
    /\ UNCHANGED <<cache, cache_gen, extractors, next_id, targ, held,
                   clr_todo, clr_size, torn>>
    /\ UNCHANGED <<ctlVars, vidVars, namVars, retryVars, lib2Vars>>

\* `if pdf_key in self._cache:` cleanup and `del self._cache[pdf_key]`, then
\* the lock is released.
Remove_Delete(t) ==
    /\ tpc[t] = "rm_locked"
    /\ IF cache[Resolve(targ[t])] # 0
       THEN /\ cache' = [cache EXCEPT ![Resolve(targ[t])] = 0]
            /\ cache_gen' = [cache_gen EXCEPT ![Resolve(targ[t])] = @ + 1]
       ELSE UNCHANGED <<cache, cache_gen>>
    /\ Release
    /\ tpc' = [tpc EXCEPT ![t] = "idle"]
    /\ targ' = [targ EXCEPT ![t] = ""]
    /\ UNCHANGED <<extractors, next_id, held, clr_todo, clr_size, torn>>
    /\ UNCHANGED <<ctlVars, vidVars, namVars, retryVars, lib2Vars>>

CachedKeys == {k \in Keys : cache[k] # 0}

\* clear is called: the lock is requested.
Clear_Call(t) ==
    /\ tpc[t] = "idle"
    /\ tpc' = [tpc EXCEPT ![t] = "clr_acquire"]
    /\ UNCHANGED <<cache, cache_lock, cache_gen, extractors, next_id, targ,
                   held, clr_todo, clr_size, torn>>
    /\ UNCHANGED <<ctlVars, vidVars, namVars, retryVars, lib2Vars>>

\* The lock is taken and the iteration over self._cache.values() starts.
Clear_Acquire(t) ==
    /\ tpc[t] = "clr_acquire"
    /\ Acquire(t)
    /\ clr_todo' = [clr_todo EXCEPT ![t] = CachedKeys]
    /\ clr_size' = [clr_size EXCEPT ![t] = Cardinality(CachedKeys)]
    /\ tpc' = [tpc EXCEPT ![t] = "clr_iterate"]
    /\ UNCHANGED <<cache, cache_gen, extractors, next_id, targ, held, torn>>
    /\ UNCHANGED <<ctlVars, vidVars, namVars, retryVars, lib2Vars>>

\* One pass of `for extractor in self._cache.values():`.  A dictionary whose
\* size changed since the iteration began raises RuntimeError out of clear;
\* after the last extractor is cleaned up, `self._cache.clear()` empties the
\* dictionary.  The lock is released on either way out.
Clear_Iterate(t) ==
    /\ tpc[t] = "clr_iterate"
    /\ IF Cardinality(CachedKeys) # clr_size[t]
       THEN /\ torn' = TRUE
            /\ Release
            /\ clr_todo' = [clr_todo EXCEPT ![t] = {}]
            /\ clr_size' = [clr_size EXCEPT ![t] = 0]
            /\ tpc' = [tpc EXCEPT ![t] = "idle"]
            /\ UNCHANGED <<cache, cache_gen>>
       ELSE IF clr_todo[t] # {}
       THEN /\ \E k \in clr_todo[t] :
                   clr_todo' = [clr_todo EXCEPT ![t] = @ \ {k}]
            /\ UNCHANGED <<cache, cache_gen, cache_lock, clr_size, torn, tpc>>
       ELSE /\ cache' = [k \in Keys |-> 0]
            /\ cache_gen' = [k \in Keys |->
                   IF cache[k] # 0 THEN cache_gen[k] + 1 ELSE cache_gen[k]]
            /\ Release
            /\ clr_size' = [clr_size EXCEPT ![t] = 0]
            /\ tpc' = [tpc EXCEPT ![t] = "idle"]
            /\ UNCHANGED <<clr_todo, torn>>
    /\ UNCHANGED <<extractors, next_id, targ, held>>
    /\ UNCHANGED <<ctlVars, vidVars, namVars, retryVars, lib2Vars>>

RequestKinds == {"get_text", "get_figures"}

OcrOutcomes == {"ok", "fail"}

\* The threads inside process_pdf of extractor e.
Processing(e) == {t \in Threads : tpc[t] \in {"process_pdf", "ocr"} /\ held[t].id = e}

\* get_text / get_figures on the extractor the thread holds: `if not
\* self._processed:` calls process_pdf, otherwise the stored content is
\* returned at once.
Request(t, kind) ==
    /\ tpc[t] = "idle"
    /\ held[t].id # 0
    /\ extractors[held[t].id].ocr + Cardinality(Processing(held[t].id)) < MaxOcrCalls
    /\ IF extractors[held[t].id].processed
       THEN UNCHANGED <<tpc, targ>>
       ELSE /\ tpc' = [tpc EXCEPT ![t] = "process_pdf"]
            /\ targ' = [targ EXCEPT ![t] = kind]
    /\ UNCHANGED <<cache, cache_lock, cache_gen, extractors, next_id, held,
                   clr_todo, clr_size, torn>>
    /\ UNCHANGED <<ctlVars, vidVars, namVars, retryVars, lib2Vars>>

get_text(t) == Request(t, "get_text")

get_figures(t) == Request(t, "get_figures")

\* process_pdf: `if self._processed: return`, else the PDF is handed to the
\* OCR subprocess, which runs until OcrDone.
process_pdf(t) ==
    /\ tpc[t] = "process_pdf"
    /\ IF extractors[held[t].id].processed
       THEN /\ tpc' = [tpc EXCEPT ![t] = "idle"]
            /\ targ' = [targ EXCEPT ![t] = ""]
            /\ UNCHANGED extractors
       ELSE /\ extractors' = [extractors EXCEPT ![held[t].id].ocr = @ + 1]
            /\ tpc' = [tpc EXCEPT ![t] = "ocr"]
            /\ UNCHANGED targ
    /\ UNCHANGED <<cache, cache_lock, cache_gen, next_id, held, clr_todo,
                   clr_size, torn>>
    /\ UNCHANGED <<ctlVars, vidVars, namVars, retryVars, lib2Vars>>

\* The OCR subprocess ends: its results are stored and _processed is set, or
\* process_pdf raises and _processed stays False.
OcrDone(t) ==
    /\ tpc[t] = "ocr"
    /\ \E outcome \in OcrOutcomes :
          IF outcome = "ok"
          THEN extractors' = [extractors EXCEPT ![held[t].id].processed = TRUE]
          ELSE UNCHANGED extractors
    /\ tpc' = [tpc EXCEPT ![t] = "idle"]
    /\ targ' = [targ EXCEPT ![t] = ""]
    /\ UNCHANGED <<cache, cache_lock, cache_gen, next_id, held, clr_todo,
                   clr_size, torn>>
    /\ UNCHANGED <<ctlVars, vidVars, namVars, retryVars, lib2Vars>>

(***************************************************************************)
(* Temporary workspaces: MistralExtractor.process_pdf / cleanup and the     *)
(* mkdtemp / rmtree pair of create_video.  An extractor is named by the    *)
(* stem of its PDF; the OCR subprocess writes its output to                *)
(* <temp_dir>/<stem>/.  A video workspace is named by a number.            *)
(***************************************************************************)
Pdfs == {"paper", "other"}

MaxTempNames == 3

\* mistral_config.py, and the fallback of the import in the extractor.
CLEANUP_TEMP_FILES == TRUE

\* process_pdf(): both callers, get_text and get_figures, leave temp_dir at
\* its default.  The results are kept only when the subprocess succeeds.
X_ProcessPdf(e) ==
    /\ x_state[e] = "new"
    /\ mistral_output_dir' = [mistral_output_dir EXCEPT ![e] = "temp_mistral_unified"]
    /\ \E outcome \in OcrOutcomes :
          IF outcome = "ok"
          THEN /\ disk' = disk \cup {<<"temp_mistral_unified", e>>}
               /\ x_state' = [x_state EXCEPT ![e] = "processed"]
          ELSE UNCHANGED <<disk, x_state>>
    /\ UNCHANGED video_temp
    /\ UNCHANGED <<ctlVars, vidVars, namVars, retryVars, cacheVars, planVars, repVars, callVars>>

\* cleanup(), called by clear / remove of the cache and by __exit__:
\* shutil.rmtree(self.mistral_output_dir) when the directory exists.
X_Cleanup(e) ==
    /\ x_state[e] \in {"new", "processed"}
    /\ disk' = IF CLEANUP_TEMP_FILES /\ mistral_output_dir[e] # "none"
               THEN {d \in disk : d[1] # mistral_output_dir[e]}
               ELSE disk
    /\ x_state' = [x_state EXCEPT ![e] = "cleaned"]
    /\ UNCHANGED <<mistral_output_dir, video_temp>>
    /\ UNCHANGED <<ctlVars, vidVars, namVars, retryVars, cacheVars, planVars, repVars, callVars>>

\* MistralExtractor(pdf_path): a new extractor for a PDF whose last one was
\* cleaned up.
X_Construct(e) ==
    /\ x_state[e] = "cleaned"
    /\ x_state' = [x_state EXCEPT ![e] = "new"]
    /\ mistral_output_dir' = [mistral_output_dir EXCEPT ![e] = "none"]
    /\ UNCHANGED <<disk, video_temp>>
    /\ UNCHANGED <<ctlVars, vidVars, namVars, retryVars, cacheVars, planVars, repVars, callVars>>

\* tempfile.mkdtemp(prefix="video_temp_"): a directory that did not exist.
V_Mkdtemp(t) ==
    /\ video_temp[t] = 0
    /\ \E n \in 1..MaxTempNames :
          /\ \A u \in Threads : video_temp[u] # n
          /\ video_temp' = [video_temp EXCEPT ![t] = n]
    /\ UNCHANGED <<mistral_output_dir, x_state, disk>>
    /\ UNCHANGED <<ctlVars, vidVars, namVars, retryVars, cacheVars, planVars, repVars, callVars>>

\* finally: shutil.rmtree(temp_dir)
V_Rmtree(t) ==
    /\ video_temp[t] # 0
    /\ video_temp' = [video_temp EXCEPT ![t] = 0]
    /\ UNCHANGED <<mistral_output_dir, x_state, disk>>
    /\ UNCHANGED <<ctlVars, vidVars, namVars, retryVars, cacheVars, planVars, repVars, callVars>>

(***************************************************************************)
(* processors/llm_processor.py: generate_slides_content, one action per    *)
(* request to the planning collaborator.  Of a slide the model holds its   *)
(* "slide number".                                                         *)
(* call_ollama_llm returns a list and never raises; a list item that is    *)
(* not an object makes `slide["slide number"] = ...` raise after the items *)
(* before it were appended.                                                *)
(***************************************************************************)
MaxChunks == 3

MaxPlan == 4

MaxReturn == 3

\* The "slide number" values the collaborator gives its slides.
ReturnedNumbers == {1, 3}

\* What a request can give: `good` slides, each known by the "slide number"
\* it came with, then possibly an item that is not an object.
LlmReturns ==
    [good : UNION {[1..k -> ReturnedNumbers] : k \in 0..MaxReturn}, bad : BOOLEAN]

\* Variant: the slides keep the numbers they came with.
Renumber_KeepsReturned(numbers, counter, returned) == numbers \o returned

\* `slide["slide number"] = slide_counter; all_slides.append(slide);
\* slide_counter += 1` for each slide returned.
Renumber(numbers, counter, returned) ==
    numbers \o [k \in 1..Len(returned) |-> counter + k - 1]

\* generate_slides_content is called: the text is split, the counters are
\* set.
G_Call ==
    /\ gpc = "off"
    /\ \E k \in 1..MaxChunks, n \in 1..MaxPlan :
          /\ text_chunks' = k
          /\ max_slides' = n
          /\ remaining_slides' = n
    /\ chunk_i' = 0
    /\ all_slides' = 0
    /\ slide_counter' = 1
    /\ slide_numbers' = <<>>
    /\ requested_total' = 0
    /\ chunk_succeeded' = FALSE
    /\ plan_saved' = -1
    /\ gpc' = "chunks"
    /\ UNCHANGED <<ctlVars, vidVars, namVars, retryVars, cacheVars, wsVars, repVars, callVars>>

\* One pass of `for i, chunk in enumerate(text_chunks)`.
G_Chunk ==
    /\ gpc = "chunks"
    /\ LET slides_per_chunk ==
               IF max_slides \div text_chunks >= 1 THEN max_slides \div text_chunks ELSE 1
           chunk_slides ==
               IF chunk_i = text_chunks - 1 THEN remaining_slides
               ELSE IF slides_per_chunk < remaining_slides THEN slides_per_chunk
               ELSE remaining_slides
       IN  IF chunk_i >= text_chunks \/ chunk_slides <= 0
           THEN /\ gpc' = "summary"
                /\ UNCHANGED <<chunk_i, remaining_slides, all_slides,
                               slide_counter, slide_numbers,
                               requested_total, chunk_succeeded>>
           ELSE \E r \in LlmReturns :
                   /\ requested_total' = requested_total + chunk_slides
                   /\ IF r.good = <<>> /\ ~r.bad
                      THEN /\ gpc' = "done"
                           /\ UNCHANGED <<chunk_i, remaining_slides, all_slides,
                                          slide_counter, slide_numbers,
                                          chunk_succeeded>>
                      ELSE /\ all_slides' = all_slides + Len(r.good)
                           /\ slide_numbers' = Renumber(slide_numbers, slide_counter, r.good)
                           /\ slide_counter' = slide_counter + Len(r.good)
                           /\ remaining_slides' = remaining_slides - Len(r.good)
                           /\ chunk_succeeded' = (chunk_succeeded \/ ~r.bad)
                           /\ chunk_i' = chunk_i + 1
                           /\ gpc' = "chunks"
    /\ UNCHANGED <<text_chunks, max_slides, plan_saved>>
    /\ UNCHANGED <<ctlVars, vidVars, namVars, retryVars, cacheVars, wsVars, repVars, callVars>>

\* After the loop: the one summary request when slides are missing, the
\* truncation to max_slides, and json.dump of the plan.
G_Summary ==
    /\ gpc = "summary"
    /\ \E r \in LlmReturns :
          LET summary == IF all_slides < max_slides THEN r.good ELSE <<>>
              filled == Renumber(slide_numbers, slide_counter, summary)
              kept == IF Len(filled) > max_slides THEN max_slides ELSE Len(filled)
          IN  /\ all_slides' = kept
              /\ slide_numbers' = SubSeq(filled, 1, kept)
              /\ slide_counter' = slide_counter + Len(summary)
              /\ plan_saved' = kept
    /\ gpc' = "done"
    /\ UNCHANGED <<text_chunks, max_slides, chunk_i, remaining_slides,
                   requested_total, chunk_succeeded>>
    /\ UNCHANGED <<ctlVars, vidVars, namVars, retryVars, cacheVars, wsVars, repVars, callVars>>

(***************************************************************************)
(* The response of the planning collaborator: fix_json_newlines            *)
(* (processors/llm_processor.py, txt2slides.py), the parsing of            *)
(* txt2slides.main and call_ollama_llm (pdf2json.py).                      *)
(*                                                                         *)
(* A text is a sequence of characters of seven kinds: "q" the double       *)
(* quote, "b" the backslash, "n" a raw newline, "e" the letter n, "{" and  *)
(* "}", "f" a code fence (``` or ```json), and "a" any other character.    *)
(* json.loads is modelled at the level the repair pass works on: a text    *)
(* parses when, leading and trailing white space apart, it runs from "{"   *)
(* to "}" and between them holds only "a", newlines and string literals    *)
(* that are closed, hold no raw newline and only the escapes \" \\ \n.     *)
(***************************************************************************)
MaxPieces == 3

\* The parts a response is made of between its braces: a newline or another
\* character between tokens, and string literals: plain, with an escaped
\* quote, with an escaped backslash, with an escaped newline, with a raw
\* newline, and one that is not closed.
Pieces ==
    { <<"n">>, <<"a">>, <<"q", "a", "q">>, <<"q", "b", "q", "q">>,
      <<"q", "b", "b", "q">>, <<"q", "b", "e", "q">>, <<"q", "n", "q">>,
      <<"q", "a">> }

\* The responses considered: an object alone, wrapped in code fences, or
\* preceded by prose.
Responses ==
    LET RECURSIVE Flat(_)
        Flat(ps) == IF ps = <<>> THEN <<>> ELSE Head(ps) \o Flat(Tail(ps))
        Objects == {<<"{">> \o Flat(ps) \o <<"}">> :
                       ps \in UNION {[1..k -> Pieces] : k \in 0..MaxPieces}}
    IN  Objects \cup {<<"f", "n">> \o o \o <<"n", "f">> : o \in Objects}
                \cup {<<"a", "n">> \o o : o \in Objects}

RECURSIVE Scan(_, _)

\* Variant: the scan takes every quote for the end of the literal.
Scan_IgnoresEscapes(s, j) ==
    IF \E k \in j..Len(s) : s[k] = "q"
    THEN CHOOSE k \in j..Len(s) : s[k] = "q" /\ \A m \in j..(k - 1) : s[m] # "q"
    ELSE 0

\* (?:\\.|[^"\\])*" matched from position j under re.DOTALL: the index of
\* the closing quote, 0 when the pattern does not match.
Scan(s, j) ==
    IF j > Len(s) THEN 0
    ELSE IF s[j] = "q" THEN j
    ELSE IF s[j] = "b" THEN (IF j + 1 > Len(s) THEN 0 ELSE Scan(s, j + 2))
    ELSE Scan(s, j + 1)

\* re.sub(string_literal_regex, escape_newlines_in_match, json_string):
\* every literal matched, left to right, has its newlines replaced by \n.
fix_json_newlines(json_string) ==
    LET RECURSIVE Escape(_)
        Escape(lit) ==
            IF lit = <<>> THEN <<>>
            ELSE (IF Head(lit) = "n" THEN <<"b", "e">> ELSE <<Head(lit)>>)
                 \o Escape(Tail(lit))
        RECURSIVE Sub(_)
        Sub(i) ==
            IF i > Len(json_string) THEN <<>>
            ELSE IF json_string[i] = "q" /\ Scan(json_string, i + 1) # 0
            THEN Escape(SubSeq(json_string, i, Scan(json_string, i + 1)))
                 \o Sub(Scan(json_string, i + 1) + 1)
            ELSE <<json_string[i]>> \o Sub(i + 1)
    IN  Sub(1)

\* str.strip()
RECURSIVE Strip(_)
Strip(s) ==
    IF s = <<>> THEN s
    ELSE IF Head(s) = "n" THEN Strip(Tail(s))
    ELSE IF s[Len(s)] = "n" THEN Strip(SubSeq(s, 1, Len(s) - 1))
    ELSE s

NotParsed == [ok |-> FALSE, strings |-> <<>>]

\* json.loads: whether the text parses, and the decoded string values.
json_loads(text) ==
    LET s == Strip(text)
        RECURSIVE Lex(_, _, _)
        \* i: position; lit: the literal being decoded, <<"-">> outside one
        Lex(i, lit, acc) ==
            IF i >= Len(s)
            THEN IF lit = <<"-">> THEN [ok |-> TRUE, strings |-> acc] ELSE NotParsed
            ELSE IF lit = <<"-">>
            THEN IF s[i] = "q" THEN Lex(i + 1, <<>>, acc)
                 ELSE IF s[i] \in {"a", "n"} THEN Lex(i + 1, lit, acc)
                 ELSE NotParsed
            ELSE IF s[i] = "q" THEN Lex(i + 1, <<"-">>, Append(acc, lit))
            ELSE IF s[i] = "n" THEN NotParsed
            ELSE IF s[i] = "b"
            THEN IF i + 1 < Len(s) /\ s[i + 1] \in {"q", "b", "e"}
                 THEN Lex(i + 2, Append(lit, IF s[i + 1] = "e" THEN "n" ELSE s[i + 1]), acc)
                 ELSE NotParsed
            ELSE Lex(i + 1, Append(lit, s[i]), acc)
    IN  IF Len(s) >= 2 /\ s[1] = "{" /\ s[Len(s)] = "}"
        THEN Lex(2, <<"-">>, <<>>)
        ELSE NotParsed

\* call_ollama_llm, strategies 1 to 3: the object between code fences (the
\* shortest one closed by a fence), else the text from the first "{" to the
\* last "}", else the whole response; stripped.
ExtractJson(response_content) ==
    LET s == response_content
        n == Len(s)
        SkipWs(i) == CHOOSE j \in i..(n + 1) :
                        /\ j = n + 1 \/ s[j] # "n"
                        /\ \A m \in i..(j - 1) : s[m] = "n"
        Closed(e) == SkipWs(e + 1) <= n /\ s[SkipWs(e + 1)] = "f"
        Blocks == {<<p, e>> \in (1..n) \X (1..n) :
                      /\ s[p] = "f"
                      /\ SkipWs(p + 1) < e
                      /\ s[SkipWs(p + 1)] = "{"
                      /\ s[e] = "}"
                      /\ Closed(e)}
        first == CHOOSE b \in Blocks : \A c \in Blocks :
                     b[1] < c[1] \/ (b[1] = c[1] /\ b[2] <= c[2])
        Opens == {i \in 1..n : s[i] = "{" /\ \E j \in (i + 1)..n : s[j] = "}"}
        open == CHOOSE i \in Opens : \A j \in Opens : i <= j
        close == CHOOSE j \in 1..n : s[j] = "}" /\ \A m \in (j + 1)..n : s[m] # "}"
    IN  Strip(IF Blocks # {} THEN SubSeq(s, SkipWs(first[1] + 1), first[2])
              ELSE IF Opens # {} THEN SubSeq(s, open, close)
              ELSE s)

\* txt2slides.main: the response is repaired and parsed; when that fails it
\* is written to llm_response_error.json and main returns.  A failure of
\* that write ends the process (sys.exit(1)).
T_ParseResponse ==
    /\ handler = ""
    /\ \E r \in Responses, written \in BOOLEAN :
          /\ response' = r
          /\ json_str' = fix_json_newlines(r)
          /\ parsed' = json_loads(fix_json_newlines(r))
          /\ IF json_loads(fix_json_newlines(r)).ok
             THEN /\ diag' = ""
                  /\ plan_stage' = "slides"
             ELSE /\ diag' = IF written THEN "written" ELSE "failed"
                  /\ plan_stage' = "failed"
    /\ handler' = "txt2slides"
    /\ UNCHANGED <<ctlVars, vidVars, namVars, retryVars, cacheVars, wsVars, planVars, callVars>>

\* call_ollama_llm on behalf of generate_slides_content: the response is
\* logged, the JSON is extracted and parsed, once more after trimming to the
\* outermost braces; [] is returned when it does not parse.  An empty answer
\* to a chunk request fails the stage; after an empty answer to the summary
\* request the plan is saved all the same.
O_CallOllamaLlm ==
    /\ handler = ""
    /\ \E r \in Responses, written \in BOOLEAN, kind \in {"ollama_chunk", "ollama_summary"} :
          LET first == ExtractJson(r)
              trimmed ==
                  IF \E i \in 1..Len(first) : first[i] = "{"
                  THEN LET o == CHOOSE i \in 1..Len(first) :
                                   first[i] = "{" /\ \A m \in 1..(i - 1) : first[m] # "{"
                           rest == SubSeq(first, o, Len(first))
                       IN  IF \E j \in 1..Len(rest) : rest[j] = "}"
                           THEN SubSeq(rest, 1,
                                    CHOOSE j \in 1..Len(rest) :
                                       rest[j] = "}" /\ \A m \in (j + 1)..Len(rest) : rest[m] # "}")
                           ELSE <<>>
                  ELSE <<>>
              final == IF json_loads(first).ok THEN first ELSE trimmed
          IN  /\ response' = r
              /\ diag' = IF written THEN "written" ELSE "failed"
              /\ json_str' = final
              /\ parsed' = json_loads(final)
              /\ plan_stage' = IF json_loads(final).ok THEN "slides"
                          ELSE IF kind = "ollama_chunk" THEN "failed"
                          ELSE "saved"
              /\ handler' = kind
    /\ UNCHANGED <<ctlVars, vidVars, namVars, retryVars, cacheVars, wsVars, planVars, callVars>>

(***************************************************************************)
(* processors/llm_processor.py: match_figures_to_slides, for one slide.    *)
(* A bag of meaningful words is known by its size: a slide has slide_words *)
(* words; a figure has `words` words of which `common` are also the        *)
(* slide's, `mention` tells whether the slide text holds "figure N" or     *)
(* "fig N" for it (then "figure" or "fig" is a word of the slide), and     *)
(* path is "" (no markdown_path), "stale" (a path to a file that is gone)  *)
(* or "file".                                                              *)
(***************************************************************************)
MaxSlideWords == 5

Figures == {1, 2}

FigureWordCounts == {0, 1, 2, 26}

FigureData(slide_words) ==
    {f \in [words : FigureWordCounts, common : 0..slide_words,
            mention : BOOLEAN, path : {"", "stale", "file"}] :
        /\ f.common <= f.words
        /\ f.mention => slide_words >= 1}

\* calculate_text_similarity plus the bonus, as the exact fraction
\* ScoreNum / ScoreDen: 0.6 * |common| / |union| + 0.4 * |common| / |slide|,
\* 0 when a bag is empty, and 0.5 more for a mention.
ScoreDen == 10 * (MaxSlideWords + 27) * (MaxSlideWords + 1)

ScoreNum(f, slide_words) ==
    LET union == slide_words + f.words - f.common
    IN  (IF slide_words = 0 \/ f.words = 0 THEN 0
         ELSE (f.common * (6 * slide_words + 4 * union) * ScoreDen)
                  \div (10 * union * slide_words))
        + (IF f.mention THEN ScoreDen \div 2 ELSE 0)

\* The bags at which the score is exactly 1/10 and its evaluation in double
\* precision, (i/u) * 0.6 + (i/w) * 0.4, is 0.10000000000000002: every such
\* case with bags of fewer than 80 words, as <<slide, figure, common>>.
RoundsAbove == {<<5, 26, 1>>, <<10, 52, 2>>, <<15, 78, 3>>}

\* Variant: every score passes.
ExceedsThreshold_Always(f, slide_words) == TRUE

\* `if score > 0.1`, on doubles.
ExceedsThreshold(f, slide_words) ==
    \/ 10 * ScoreNum(f, slide_words) > ScoreDen
    \/ /\ 10 * ScoreNum(f, slide_words) = ScoreDen
       /\ <<slide_words, f.words, f.common>> \in RoundsAbove

\* match_figures_to_slides for one slide: the figure max() picks (the first
\* of those with the highest score; among figures whose equal scores come
\* from different bags, the one rounding favours), appended to the content
\* when its score passes and its path is not empty.
match_figures_to_slides ==
    /\ lib_call = ""
    /\ \E w \in 0..MaxSlideWords :
       \E figs \in [Figures -> FigureData(w)] :
       \E k \in Figures :
          /\ \A j \in Figures : ScoreNum(figs[j], w) <= ScoreNum(figs[k], w)
          /\ \A j \in Figures :
                (j < k /\ ScoreNum(figs[j], w) = ScoreNum(figs[k], w))
                => <<figs[j].words, figs[j].common>> # <<figs[k].words, figs[k].common>>
          /\ lib_in' = [slide_words |-> w, figures |-> figs]
          /\ lib_out' = [best |-> k,
                         refs |-> IF ExceedsThreshold(figs[k], w) /\ figs[k].path # ""
                                  THEN <<k>> ELSE <<>>,
                         error |-> FALSE]
    /\ lib_call' = "match_figures_to_slides"
    /\ UNCHANGED <<ctlVars, vidVars, namVars, retryVars, cacheVars, wsVars, planVars, repVars>>

(***************************************************************************)
(* json2marp.py: main.  A slide of the plan is known by the values of its  *)
(* two keys, "slide_number" and "slide number"; -1 is a key that is absent *)
(* (None).                                                                 *)
(***************************************************************************)
MaxDeck == 2

MaxNum == 2

\* get_slide_num: `s.get("slide_number") or s.get("slide number")`.
get_slide_num(s) ==
    IF s.slide_number \notin {-1, 0} THEN s.slide_number ELSE s.slide_number_sp

\* main: the slides sorted by get_slide_num, None as float('inf').
json2marp ==
    /\ lib_call = ""
    /\ \E n \in 1..MaxDeck :
       \E slides \in [1..n -> [slide_number : -1..MaxNum, slide_number_sp : -1..MaxNum]] :
          /\ lib_in' = slides
          /\ lib_out' =
                [raised |-> FALSE,
                 deck |-> LET keyed == [i \in 1..n |->
                                  [slide_number |->
                                       IF get_slide_num(slides[i]) = -1 THEN MaxNum + 1
                                       ELSE get_slide_num(slides[i]),
                                   slide |-> slides[i]]]
                              sorted == SortedSlides(keyed)
                          IN  [i \in 1..n |-> sorted[i].slide]]
    /\ lib_call' = "json2marp"
    /\ UNCHANGED <<ctlVars, vidVars, namVars, retryVars, cacheVars, wsVars, planVars, repVars>>

(***************************************************************************)
(* Narration synthesis: processors/audio_generator.py generate_audio and   *)
(* txt2slides.py generate_audio_files.  A slide is known by its narration  *)
(* ("" empty, "ws" only whitespace, "text") and its "slide number" key     *)
(* (-1: absent); tts[i] is what the text-to-speech call and the file write *)
(* for slide i do when they are made.                                      *)
(***************************************************************************)
NarrationInputs ==
    UNION {[slides : [1..n -> [audio : {"", "ws", "text"},
                               slide_number_sp : {-1} \cup (1..MaxNum)]],
            tts : [1..n -> {"ok", "fail"}]] : n \in 1..MaxDeck}

\* The loop both functions run: `if not audio_text: continue`, then convert
\* and sarvam_save to slide{slide_num:02d}.wav.  last is the last slide the
\* loop reaches.  calls: the slides the collaborator is called for; written:
\* the files saved, in order.
NarrationLoop(in, last) ==
    LET n == Len(in.slides)
        Called(i) == i <= last /\ in.slides[i].audio # ""
        Saved(i) == Called(i) /\ in.tts[i] = "ok"
        File(i) == [slide |-> i,
                    num |-> IF in.slides[i].slide_number_sp = -1 THEN i
                            ELSE in.slides[i].slide_number_sp]
        idx == [i \in 1..n |-> i]
        saved == SelectSeq(idx, Saved)
    IN  [calls |-> SelectSeq(idx, Called),
         written |-> [k \in 1..Len(saved) |-> File(saved[k])]]

\* generate_audio: raises when SARVAM_API_KEY is not set; an exception of
\* the loop leaves it and is re-raised (lines 100-101).
generate_audio_call ==
    /\ lib_call = ""
    /\ \E has_key \in BOOLEAN : \E in \in NarrationInputs :
          LET n == Len(in.slides)
              Fails(i) == in.slides[i].audio # "" /\ in.tts[i] = "fail"
              last == IF \E i \in 1..n : Fails(i)
                      THEN CHOOSE i \in 1..n : Fails(i) /\ \A j \in 1..(i - 1) : ~Fails(j)
                      ELSE n
              loop == NarrationLoop(in, IF has_key THEN last ELSE 0)
          IN  /\ lib_in' = [has_key |-> has_key, slides |-> in.slides, tts |-> in.tts]
              /\ lib_out' = [raised |-> ~has_key \/ \E i \in 1..n : Fails(i),
                             calls |-> loop.calls,
                             written |-> loop.written]
    /\ lib_call' = "generate_audio"
    /\ UNCHANGED <<ctlVars, vidVars, namVars, retryVars, cacheVars, wsVars, planVars, repVars>>

\* generate_audio_files: the module has exited at import when the key is
\* not set (lines 60-63); each slide's exception is caught and printed.
generate_audio_files ==
    /\ lib_call = ""
    /\ \E in \in NarrationInputs :
          LET loop == NarrationLoop(in, Len(in.slides))
          IN  /\ lib_in' = [has_key |-> TRUE, slides |-> in.slides, tts |-> in.tts]
              /\ lib_out' = [raised |-> FALSE,
                             calls |-> loop.calls,
                             written |-> loop.written]
    /\ lib_call' = "generate_audio_files"
    /\ UNCHANGED <<ctlVars, vidVars, namVars, retryVars, cacheVars, wsVars, planVars, repVars>>

(***************************************************************************)
(* processors/slide_renderer.py: render_slides.  The deck has `slides`     *)
(* slides; the frames directory holds `stale` frames deck.001.png ... of   *)
(* an earlier run; tool is what npx marp does ("missing": the version      *)
(* check fails, "fail": the rendering exits non-zero, "ok": it exits 0)    *)
(* and `produced` the number of frames it writes before it exits.          *)
(***************************************************************************)
render_slides ==
    /\ lib_call = ""
    /\ \E n \in 1..MaxDeck, stale \in 0..MaxDeck, produced \in 0..MaxDeck :
       \E tool \in {"missing", "fail", "ok"} :
          LET written == IF tool = "missing" THEN 0 ELSE produced
              png_count == IF written > stale THEN written ELSE stale
          IN  /\ lib_in' = [slides |-> n, stale |-> stale, tool |-> tool,
                            produced |-> written]
              /\ lib_out' =
                    IF tool = "missing"
                    THEN [result |-> "raise", renderer_output |-> FALSE, frames |-> png_count]
                    ELSE IF tool = "fail"
                    THEN [result |-> "raise", renderer_output |-> TRUE, frames |-> png_count]
                    ELSE IF png_count = 0
                    THEN [result |-> "raise", renderer_output |-> FALSE, frames |-> 0]
                    ELSE [result |-> "path", renderer_output |-> FALSE, frames |-> png_count]
    /\ lib_call' = "render_slides"
    /\ UNCHANGED <<ctlVars, vidVars, namVars, retryVars, cacheVars, wsVars, planVars, repVars>>

(***************************************************************************)
(* match_figures_to_slides, lines 165-167: the bonus for a figure the      *)
(* slide text mentions.  The text is a sequence of pieces: the words       *)
(* "figure", "Figure" and "fig" (each piece its letters, with nothing      *)
(* between it and its neighbours), a space, the digits "1" and "2", and    *)
(* "x", any other letter.                                                  *)
(***************************************************************************)
MaxText == 4

TextPieces == {"figure", "Figure", "fig", " ", "1", "2", "x"}

\* Whether `similarity += 0.5` runs for each figure:
\* f"figure {fig_idx + 1}" in slide_text.lower() or f"fig {fig_idx + 1}" in
\* slide_text.lower(), `in` being the substring test.
mention_bonus ==
    /\ lib_call = ""
    /\ \E text \in UNION {[1..k -> TextPieces] : k \in 0..MaxText} :
          LET lower == [i \in 1..Len(text) |->
                           IF text[i] = "Figure" THEN "figure" ELSE text[i]]
              Str(n) == IF n = 1 THEN "1" ELSE "2"
              In(pat, s) == \E i \in 0..(Len(s) - Len(pat)) :
                                \A j \in 1..Len(pat) : s[i + j] = pat[j]
          IN  /\ lib_in' = text
              /\ lib_out' = [n \in Figures |->
                                \/ In(<<"figure", " ", Str(n)>>, lower)
                                \/ In(<<"fig", " ", Str(n)>>, lower)]
    /\ lib_call' = "mention_bonus"
    /\ UNCHANGED <<ctlVars, vidVars, namVars, retryVars, cacheVars, wsVars, planVars, repVars>>

(***************************************************************************)
(* processors/llm_processor.py: split_text_into_chunks.  The text is its   *)
(* paragraphs (the pieces between "\n\n"), each known by its length; the   *)
(* paragraphs considered are not empty and have no white space at their    *)
(* ends, so that strip() leaves a chunk as it is.  A chunk is the sequence *)
(* of its paragraphs, joined by "\n\n".                                    *)
(***************************************************************************)
MaxParagraphs == 3

MaxParagraphLen == 4

MaxChunkSize == 5

split_text_into_chunks ==
    /\ lib_call = ""
    /\ \E max_chunk_size \in 1..MaxChunkSize :
       \E paragraphs \in UNION {[1..k -> 1..MaxParagraphLen] : k \in 1..MaxParagraphs} :
          LET RECURSIVE len(_)
              len(chunk) == IF chunk = <<>> THEN 0
                            ELSE IF Len(chunk) = 1 THEN chunk[1]
                            ELSE chunk[1] + 2 + len(Tail(chunk))
              RECURSIVE Loop(_, _, _)
              Loop(i, chunks, current_chunk) ==
                  IF i > Len(paragraphs)
                  THEN IF current_chunk # <<>> THEN Append(chunks, current_chunk)
                       ELSE chunks
                  ELSE IF len(current_chunk) + paragraphs[i] + 2 > max_chunk_size
                          /\ current_chunk # <<>>
                       THEN Loop(i + 1, Append(chunks, current_chunk), <<paragraphs[i]>>)
                       ELSE Loop(i + 1, chunks, Append(current_chunk, paragraphs[i]))
          IN  /\ lib_in' = [paragraphs |-> paragraphs, max_chunk_size |-> max_chunk_size]
              /\ lib_out' = Loop(1, <<>>, <<>>)
    /\ lib_call' = "split_text_into_chunks"
    /\ UNCHANGED <<ctlVars, vidVars, namVars, retryVars, cacheVars, wsVars, planVars, repVars>>

(***************************************************************************)
(* Figure references in slide content.  The content of a slide is a        *)
(* sequence of pieces: "text", the separator "\n\n", and Markdown image    *)
(* references, each known by its path: a path of the FigureSet or          *)
(* "invented", a path the collaborator made up.                            *)
(***************************************************************************)
FigureSet == {"fig1", "fig2"}

\* The slide lists match_figures_to_slides is considered on.
SlideLists ==
    UNION {[1..n -> [slide_number : {1, 2}, title : {"t1", "t2"},
                     audio : {"", "a"}, content : {<<>>, <<"text">>}]] :
           n \in 1..MaxDeck}

\* Variant: the reference replaces the content.
Inject_Replaces(content, figure_markdown) == <<figure_markdown>>

\* slide['content'] = current_content + '\n\n' + figure_markdown
Inject(content, figure_markdown) == content \o <<"\n\n", figure_markdown>>

\* The loop of match_figures_to_slides over the slides: picks[i] is the path
\* of the figure lines 153-187 choose for slide i, "" when no score passes
\* or the path of the best figure is empty.
InjectFigures(slides, picks) ==
    [i \in 1..Len(slides) |->
        IF picks[i] = "" THEN slides[i]
        ELSE [slides[i] EXCEPT !.content = Inject(@, picks[i])]]

\* match_figures_to_slides(slides, figures_data): what it returns and what
\* it leaves of figures_data.
M_MatchAll ==
    /\ lib_call = ""
    /\ \E slides \in SlideLists :
       \E picks \in [1..Len(slides) -> FigureSet \cup {""}] :
          /\ lib_in' = [slides |-> slides, figures_data |-> FigureSet, picks |-> picks]
          /\ lib_out' = [slides |-> InjectFigures(slides, picks),
                         figures_data |-> FigureSet]
    /\ lib_call' = "match_all"
    /\ UNCHANGED <<ctlVars, vidVars, namVars, retryVars, cacheVars, wsVars, planVars, repVars>>

\* generate_slides_content, lines 386-420, with a FigureSet: the search for
\* a reference to a path of the FigureSet and, when there is none, the
\* removal of every reference followed by match_figures_to_slides.
G_ValidateFigures ==
    /\ lib_call = ""
    /\ \E n \in 1..MaxDeck :
       \E contents \in [1..n -> UNION {[1..k -> {"text", "fig1", "invented"}] : k \in 0..2}] :
       \E picks \in [1..n -> FigureSet \cup {""}] :
          LET slides == [i \in 1..n |-> [slide_number |-> i, title |-> "t1",
                                         audio |-> "a", content |-> contents[i]]]
              valid_figures_found ==
                  \E i \in 1..Len(slides) : \E j \in 1..Len(slides[i].content) :
                      slides[i].content[j] \in FigureSet
              IsText(piece) == piece = "text"
              cleaned == [i \in 1..Len(slides) |->
                             [slides[i] EXCEPT !.content = SelectSeq(@, IsText)]]
          IN  /\ lib_in' = [slides |-> slides, figures_data |-> FigureSet, picks |-> picks]
              /\ lib_out' = [fallback |-> ~valid_figures_found,
                             slides |-> IF valid_figures_found THEN slides
                                        ELSE InjectFigures(cleaned, picks)]
    /\ lib_call' = "validate_figures"
    /\ UNCHANGED <<ctlVars, vidVars, namVars, retryVars, cacheVars, wsVars, planVars, repVars>>

(***************************************************************************)
(* The controller specification.                                           *)
(***************************************************************************)

\* The session state after the initialisation block of the scripts.
SessionInit ==
    /\ processing_status = InitialStatus
    /\ processing_started = FALSE
    /\ processing_complete = FALSE
    /\ processing_failed = FALSE
    /\ output_paths = InitialPaths
    /\ pc = "idle"

\* The values of the library variables outside their own specifications.
\* No retrying client is running.
RetryIdle ==
    /\ client = ""
    /\ max_retries = 0
    /\ initial_backoff = 0
    /\ attempt = 0
    /\ request_log = <<>>
    /\ sleeps = <<>>
    /\ rpc = "off"
    /\ retry_result = ""

\* No name is being compared.
NamingIdle ==
    /\ name_n = 0
    /\ name_order = NotCompared

\* The extraction cache as the import of mistral_cache.py leaves it
\* (`_global_cache = MistralCache()`), every thread outside its calls.
CacheIdle ==
    /\ cache = [k \in Keys |-> 0]
    /\ cache_lock = 0
    /\ cache_gen = [k \in Keys |-> 0]
    /\ extractors = [e \in ExtractorIds |-> NoExtractor]
    /\ next_id = 1
    /\ tpc = [t \in Threads |-> "idle"]
    /\ targ = [t \in Threads |-> ""]
    /\ held = [t \in Threads |-> NotHeld]
    /\ clr_todo = [t \in Threads |-> {}]
    /\ clr_size = [t \in Threads |-> 0]
    /\ torn = FALSE

\* No extractor has run and no video is being assembled.
WorkspaceIdle ==
    /\ mistral_output_dir = [e \in Pdfs |-> "none"]
    /\ x_state = [e \in Pdfs |-> "new"]
    /\ disk = {}
    /\ video_temp = [t \in Threads |-> 0]

\* generate_slides_content is not running.
PlanIdle ==
    /\ text_chunks = 0
    /\ max_slides = 0
    /\ chunk_i = 0
    /\ remaining_slides = 0
    /\ all_slides = 0
    /\ slide_counter = 0
    /\ slide_numbers = <<>>
    /\ requested_total = 0
    /\ chunk_succeeded = FALSE
    /\ gpc = "off"
    /\ plan_saved = -1

\* No response is being handled.
RepairIdle ==
    /\ handler = ""
    /\ response = <<>>
    /\ json_str = <<>>
    /\ parsed = NotParsed
    /\ diag = ""
    /\ plan_stage = ""

\* No library function has been called.
CallIdle ==
    /\ lib_call = ""
    /\ lib_in = <<>>
    /\ lib_out = <<>>

LibIdle ==
    /\ NamingIdle
    /\ RetryIdle
    /\ CacheIdle
    /\ WorkspaceIdle
    /\ PlanIdle
    /\ RepairIdle
    /\ CallIdle

Init ==
    /\ app \in Apps
    /\ slides_only \in BOOLEAN
    /\ SessionInit
    /\ VideoIdle
    /\ LibIdle

Next ==
    \/ E_ClickStart \/ E_ClickStop \/ E_WidgetRerun
    \/ E_Step1 \/ E_Step2 \/ E_Step3 \/ E_Step4 \/ E_Step5 \/ E_Step6 \/ E_Tail
    \/ F_ClickStart \/ F_Text \/ F_Figures \/ F_LLM \/ F_Markdown
    \/ F_SlidesOnlyOrAudio \/ F_Render \/ F_Video
    \/ O_ClickStart \/ O_FigureExtraction

Spec == Init /\ [][Next]_vars

TypeOK ==
    /\ app \in Apps
    /\ slides_only \in BOOLEAN
    /\ processing_status \in [Stages -> Statuses]
    /\ processing_started \in BOOLEAN
    /\ processing_complete \in BOOLEAN
    /\ processing_failed \in BOOLEAN
    /\ output_paths \in [PathKeys -> {"", "none", "path"}]
    /\ pc \in {"idle", "run", "f1", "f2", "f3", "f4", "f5", "f6", "f7", "o2"}

\* The naming convention on its own.
InitNaming ==
    /\ app = "enhanced"
    /\ slides_only = FALSE
    /\ SessionInit
    /\ VideoIdle
    /\ RetryIdle
    /\ CacheIdle
    /\ WorkspaceIdle
    /\ PlanIdle
    /\ RepairIdle
    /\ CallIdle
    /\ name_n \in 1..(MaxNameNum - 1)
    /\ name_order = NotCompared

NextNaming == CompareNames

SpecNaming == InitNaming /\ [][NextNaming]_vars

\* A call of one of the retrying clients.  For ocr_pdf and call_llm the limit
\* and the base are the ones written in the code.
InitRetry ==
    /\ app = "enhanced"
    /\ slides_only = FALSE
    /\ SessionInit
    /\ VideoIdle
    /\ NamingIdle
    /\ CacheIdle
    /\ WorkspaceIdle
    /\ PlanIdle
    /\ RepairIdle
    /\ CallIdle
    /\ client \in RetryClients
    /\ max_retries \in IF client = "analyze_image_with_gemini"
                        THEN 1..MaxRetries
                        ELSE IF client = "ocr_pdf" THEN {OcrAttempts}
                        ELSE {LlmAttempts}
    /\ initial_backoff \in IF client = "analyze_image_with_gemini"
                            THEN 1..MaxBackoff
                            ELSE IF client = "ocr_pdf" THEN {OcrMultiplier}
                            ELSE {LlmSleep}
    /\ attempt = 0
    /\ request_log = <<>>
    /\ sleeps = <<>>
    /\ rpc = "call"
    /\ retry_result = ""

NextRetry ==
    \/ R_AnalyzeImage
    \/ R_OcrPdf
    \/ R_CallLlm

SpecRetry == InitRetry /\ [][NextRetry]_vars

\* The extraction cache used by the threads of one process.
InitCache ==
    /\ app = "enhanced"
    /\ slides_only = FALSE
    /\ SessionInit
    /\ VideoIdle
    /\ LibIdle

\* Threads calling get_or_create.
GetOrCreate ==
    \/ \E t \in Threads, p \in RawPaths : GetOrCreate_Call(t, p)
    \/ \E t \in Threads : GetOrCreate_Acquire(t)
    \/ \E t \in Threads : GetOrCreate_Check(t)
    \/ \E t \in Threads : GetOrCreate_Create(t)
    \/ \E t \in Threads : GetOrCreate_Return(t)

\* Concurrent get_or_create, remove and clear calls on the cache.
NextCache ==
    \/ GetOrCreate
    \/ \E t \in Threads, p \in RawPaths : Remove_Call(t, p)
    \/ \E t \in Threads : Remove_Acquire(t)
    \/ \E t \in Threads : Remove_Delete(t)
    \/ \E t \in Threads : Clear_Call(t)
    \/ \E t \in Threads : Clear_Acquire(t)
    \/ \E t \in Threads : Clear_Iterate(t)

SpecCache == InitCache /\ [][NextCache]_vars

\* One run: threads obtain extractors through the cache and request text
\* and figures from them; no entry is removed before the run ends.
NextExtract ==
    \/ GetOrCreate
    \/ \E t \in Threads : get_text(t)
    \/ \E t \in Threads : get_figures(t)
    \/ \E t \in Threads : process_pdf(t)
    \/ \E t \in Threads : OcrDone(t)

SpecExtract == InitCache /\ [][NextExtract]_vars

\* Extractors of two PDFs and two invocations of create_video in one process.
NextWorkspace ==
    \/ \E e \in Pdfs : X_ProcessPdf(e)
    \/ \E e \in Pdfs : X_Cleanup(e)
    \/ \E e \in Pdfs : X_Construct(e)
    \/ \E t \in Threads : V_Mkdtemp(t)
    \/ \E t \in Threads : V_Rmtree(t)

SpecWorkspace == InitCache /\ [][NextWorkspace]_vars

\* One call of generate_slides_content.
NextPlan == G_Call \/ G_Chunk \/ G_Summary

SpecPlan == InitCache /\ [][NextPlan]_vars

\* One response handled by one of its two callers.
NextRepair == T_ParseResponse \/ O_CallOllamaLlm

SpecRepair == InitCache /\ [][NextRepair]_vars

\* One call of a function of the planning, narration or rendering library.
NextCall ==
    \/ match_figures_to_slides
    \/ json2marp
    \/ generate_audio_call
    \/ generate_audio_files
    \/ render_slides
    \/ mention_bonus
    \/ split_text_into_chunks
    \/ M_MatchAll
    \/ G_ValidateFigures

SpecCall == InitCache /\ [][NextCall]_vars

TypeOKCache ==
    /\ cache \in [Keys -> 0..MaxExtractors]
    /\ cache_lock \in {0} \cup Threads
    /\ cache_gen \in [Keys -> 0..MaxExtractors]
    /\ \A e \in ExtractorIds :
          /\ extractors[e].key \in Keys \cup {""}
          /\ extractors[e].gen \in 0..MaxExtractors
          /\ extractors[e].processed \in BOOLEAN
          /\ extractors[e].ocr \in 0..MaxOcrCalls
    /\ next_id \in 1..(MaxExtractors + 1)
    /\ tpc \in [Threads -> {"idle", "goc_acquire", "goc_check", "goc_create",
                            "goc_return", "rm_acquire", "rm_locked",
                            "clr_acquire", "clr_iterate", "process_pdf", "ocr"}]
    /\ targ \in [Threads -> RawPaths \cup RequestKinds \cup {""}]
    /\ \A t \in Threads :
          /\ held[t].id \in 0..MaxExtractors
          /\ held[t].gen \in 0..MaxExtractors
          /\ held[t].path \in RawPaths \cup {""}
    /\ clr_todo \in [Threads -> SUBSET Keys]
    /\ clr_size \in [Threads -> 0..Cardinality(Keys)]
    /\ torn \in BOOLEAN

(***************************************************************************)
(* The narration and video specification: a plan taken through             *)
(* generate_audio, rendering and create_video, or create_video on two      *)
(* directories as they are found (test_video_generation.py).               *)
(***************************************************************************)

InitVideo ==
    /\ app = "enhanced"
    /\ slides_only = FALSE
    /\ SessionInit
    /\ LibIdle
    /\ encoder_calls = 0
    /\ last_call = NoCall
    /\ output_video = "absent"
    /\ audio_result = ""
    /\ png_files = <<>>
    /\ audio_files = <<>>
    /\ standardized_audio_files = <<>>
    /\ individual_clips = <<>>
    /\ loop_i = 1
    /\ temp_dir = FALSE
    /\ video_result = ""
    /\ video_message = ""
    /\ encoder_calls = 0
    /\ last_call = NoCall
    /\ output_video = "absent"
    /\ \E from_plan \in BOOLEAN :
           IF from_plan
           THEN /\ slides_data \in Plans
                /\ audio_dir = {}
                /\ frames_dir = {}
                /\ vpc = "plan"
           ELSE /\ slides_data = <<>>
                /\ audio_dir \in {{AudioFile(n, 1) : n \in S} : S \in SUBSET (1..MaxAudio)}
                /\ frames_dir \in {{FrameFile(k, k) : k \in 1..f} : f \in 0..MaxFrames}
                /\ vpc = "ready"

NextVideo ==
    \/ GenerateAudio
    \/ RenderSlides
    \/ V_Start
    \/ V_Standardize
    \/ V_Clip
    \/ V_Concat

SpecVideo == InitVideo /\ [][NextVideo]_vars

TypeOKVideo ==
    /\ vpc \in {"plan", "narrated", "render_blocked", "ready", "standardize",
               "clips", "concat", "blocked", "done"}
    /\ encoder_calls \in Nat
    /\ last_call.cmd \in {"", "standardize", "clip", "concat"}
    /\ output_video \in {"absent", "partial", "written"}
    /\ video_result \in {"", "path", "none", "raise"}
    /\ audio_result \in {"", "path", "raise"}
    /\ temp_dir \in BOOLEAN
    /\ loop_i \in 1..(Len(standardized_audio_files) + 1)
    /\ Len(standardized_audio_files) <= Len(audio_files)
    /\ Len(individual_clips) < loop_i

(***************************************************************************)
(* Properties of the pipeline controller.                                  *)
(***************************************************************************)

\* The required predecessors of a stage in
\* extract -> (figures) -> plan -> assemble_doc -> [narrate, render] -> assemble_video.
ReqPred(s) ==
    CASE s = "text_extraction"     -> {}
      [] s = "figure_extraction"   -> {"text_extraction"}
      [] s = "llm_processing"      -> {"text_extraction"}
      [] s = "markdown_generation" -> {"llm_processing"}
      [] s = "audio_generation"    -> {"markdown_generation"}
      [] s = "slide_rendering"     -> {"markdown_generation"}
      [] s = "video_creation"      -> {"audio_generation", "slide_rendering"}

\* The step starts stage s: its status moves to processing, or through
\* processing to complete or error.
Started(s) ==
    /\ processing_status[s] # "processing"
    /\ processing_status'[s] # processing_status[s]
    /\ processing_status'[s] \in {"processing", "complete", "error"}

Terminal(v) == v \in {"complete", "error", "skipped"}

\* The session key under which a stage stores the artifact it produced.
ArtifactKey(s) ==
    CASE s = "figure_extraction"   -> "figures_metadata"
      [] s = "llm_processing"      -> "slides_json"
      [] s = "markdown_generation" -> "deck_md"
      [] s = "audio_generation"    -> "audio_dir"
      [] s = "slide_rendering"     -> "frames_dir"
      [] s = "video_creation"      -> "video"

\* C1: a stage's operation is started only if every required predecessor
\* has status complete; a stage whose predecessor is in error, was skipped
\* or never completed is never started, also across reruns of the script.
C1_StartOnlyAfterPredecessorComplete ==
    [][\A s \in Stages :
         Started(s) => \A p \in ReqPred(s) : processing_status[p] = "complete"]_vars

\* C2: a stage is never marked complete when its operation did not produce
\* its artifact (planning returned no plan, video assembly returned a
\* failure result): such a stage is marked error.
C2_CompleteOnlyWithArtifact ==
    \A s \in Stages \ {"text_extraction"} :
        processing_status[s] = "complete" => output_paths[ArtifactKey(s)] = "path"

\* C3: every stage that became processing reaches a terminal status: when
\* the script has come to rest (no run in progress, none queued) no stage
\* is left in processing.
C3_NoStageLeftProcessing ==
    pc = "idle" => \A s \in Stages : processing_status[s] # "processing"

\* C4: when figure extraction ended in error, planning is still started in
\* the same run: the script does not come to rest with planning pending.
C4_FigureErrorDoesNotBlockPlanning ==
    (pc = "idle" /\ processing_status["figure_extraction"] = "error")
        => processing_status["llm_processing"] # "pending"

\* C5: when narration synthesis ended in error, video assembly is never
\* started, but slide rendering is still started and runs in that run.
C5_AudioErrorBlocksVideoNotRender ==
    processing_status["audio_generation"] = "error"
        => /\ processing_status["video_creation"] = "pending"
           /\ (pc = "idle" => processing_status["slide_rendering"] # "pending")

C7_SlidesOnlyRendersAndSkips ==
    (slides_only /\ pc = "idle" /\ processing_status["markdown_generation"] = "complete")
        => /\ processing_status["slide_rendering"] \in {"complete", "error"}
           /\ processing_status["audio_generation"] = "skipped"
           /\ processing_status["video_creation"] = "skipped"

C9_ClipPairsFrameAndAudioOfSameSlide ==
    slides_data # <<>> =>
        \A i \in 1..Len(individual_clips) :
            LET clip == individual_clips[i]
            IN /\ clip.png.slide = clip.audio.slide
               /\ clip.duration = slides_data[clip.png.slide].audio

\* A listing holds exactly the files of the directory, in file-name order.
IsSortedListing(listing, dir) ==
    /\ Len(listing) = Cardinality(dir)
    /\ {listing[i] : i \in 1..Len(listing)} = dir
    /\ \A i \in 1..Len(listing) : \A j \in (i + 1)..Len(listing) :
           LexLess(listing[i].name, listing[j].name)

\* C10: given a >= 1 audio files and f >= 1 frames, video assembly builds
\* exactly min(a, f) clips, clip i pairing the i-th audio file with the i-th
\* frame in sorted file-name order; surplus audio is skipped, surplus frames
\* are ignored, and a count mismatch alone never fails the stage: with both
\* directories non-empty only an encoder failure makes it return None.
C10_MinCountClipsPairedInSortedOrder ==
    LET a == Cardinality(audio_dir)
        f == Cardinality(frames_dir)
        m == IF a < f THEN a ELSE f
    IN /\ (vpc = "concat" \/ video_result = "path") =>
            /\ IsSortedListing(audio_files, audio_dir)
            /\ IsSortedListing(png_files, frames_dir)
            /\ Len(individual_clips) = m
            /\ \A i \in 1..m :
                   /\ individual_clips[i].audio = audio_files[i]
                   /\ individual_clips[i].png = png_files[i]
       /\ (video_result = "none" /\ a >= 1 /\ f >= 1) =>
            video_message \in EncoderFailures

\* Five audio files and three frames gave a video of three clips.
C10_Witness ==
    /\ video_result = "path"
    /\ Cardinality(audio_dir) = 5
    /\ Cardinality(frames_dir) = 3
    /\ Len(individual_clips) = 3

\* create_video has been called.
VideoInvoked ==
    video_result # "" \/ vpc \in {"standardize", "clips", "concat", "blocked"}

\* C11: with zero audio files video assembly fails at once: the call has
\* ended with a failure, the encoder was never invoked (no standardisation,
\* clip or concatenation) and there is no output video.
C11_NoAudioFailsWithoutEncoder ==
    (audio_dir = {} /\ VideoInvoked) =>
        /\ vpc = "done"
        /\ video_result \in {"none", "raise"}
        /\ encoder_calls = 0
        /\ last_call = NoCall
        /\ output_video = "absent"

\* Frames but no audio: create_video returned None reporting the missing
\* audio.
C11_Witness ==
    /\ audio_dir = {}
    /\ frames_dir # {}
    /\ video_result = "none"
    /\ video_message = "no_audio"

\* C12: the output path is returned only if every standardisation, every
\* attempted clip encode and the concatenation succeeded; a failed sub-step
\* ends the call (no further encoder invocation) with a failure result, never
\* with the path.
C12_PathOnlyIfEverySubStepSucceeded ==
    /\ video_message \in EncoderFailures =>
           (vpc = "done" /\ video_result = "none")
    /\ video_result = "path" =>
           /\ video_message = ""
           /\ Len(standardized_audio_files) = Len(audio_files)
           /\ encoder_calls = Len(audio_files) + Len(individual_clips) + 1
           /\ output_video = "written"

\* A clip encode failed after earlier encoder calls had succeeded.
C12_Witness ==
    /\ video_result = "none"
    /\ video_message = "clip"
    /\ encoder_calls >= 3
    /\ Len(individual_clips) >= 1

\* C13: when a call of create_video that made its temporary workspace has
\* ended, on the success path or on any failure path, the workspace is gone.
C13_WorkspaceRemoved ==
    vpc = "done" => ~temp_dir

\* The call made its workspace and ended on an encoder failure.
C13_Witness ==
    /\ vpc = "done"
    /\ video_message = "standardize"
    /\ encoder_calls >= 1
    /\ ~temp_dir

\* C14: the encoder is never invoked for a clip with a duration that is
\* zero, negative or not a number; such a clip is a failure instead.
C14_EncoderNeverGetsBadDuration ==
    last_call.cmd = "clip" => last_call.t = "positive"

\* C15: every renderer or encoder subprocess is bounded by a timeout, so
\* neither rendering nor video assembly is ever left waiting for a tool that
\* does not exit.
C15_SubprocessNeverBlocksForEver ==
    vpc \notin {"blocked", "render_blocked"}

\* C16: for slide numbers up to 999 the audio file names, and likewise the
\* frame file names, sort as strings in the order of the slide numbers: the
\* name of every slide sorts before the name of the next slide.
C16_NamesSortInSlideOrder ==
    name_order # NotCompared =>
        (name_order.audio = "before" /\ name_order.frame = "before")

C18_FatalFailureEndsCall ==
    /\ \A i \in 1..Len(request_log) :
           request_log[i] = "fatal" => (i = Len(request_log) /\ rpc = "done")
    /\ \A i \in 1..Len(sleeps) : sleeps[i].after # "fatal"

Constructed == {e \in ExtractorIds : extractors[e].key # ""}

\* C19: every extractor handed out by the cache submits its PDF to the OCR
\* collaborator at most once, whatever the sequence and the interleaving of
\* the get_text and get_figures requests made on it.
C19_PdfSubmittedToOcrAtMostOnce ==
    \A e \in ExtractorIds : extractors[e].ocr <= 1

C21_WorkspacesNeverShared ==
    /\ \A e1, e2 \in Pdfs :
          (e1 # e2 /\ x_state[e1] # "cleaned" /\ x_state[e2] # "cleaned"
             /\ mistral_output_dir[e1] # "none")
          => mistral_output_dir[e1] # mistral_output_dir[e2]
    /\ \A t1, t2 \in Threads :
          (t1 # t2 /\ video_temp[t1] # 0) => video_temp[t1] # video_temp[t2]
    /\ \A e \in Pdfs :
          x_state[e] = "processed" => <<mistral_output_dir[e], e>> \in disk

\* C22: when the chunk loop of generate_slides_content has ended, the slide
\* counts asked of the collaborator over the chunk requests add up to
\* max_slides.
C22_ChunkRequestsSumToTotal ==
    gpc = "summary" => requested_total = max_slides

\* C23: when generate_slides_content has returned and some chunk request
\* gave slides, a plan of exactly max_slides slides has been saved.
C23_PlanHasExactlyTheSlidesAskedFor ==
    (gpc = "done" /\ chunk_succeeded) => plan_saved = max_slides

\* C35: in a plan saved by chunked planning the slide numbers are 1, 2, ...,
\* L in array order, L being the number of slides of the plan.
C35_SavedPlanIsNumberedInOrder ==
    plan_saved >= 0 =>
       /\ Len(slide_numbers) = plan_saved
       /\ \A k \in 1..Len(slide_numbers) : slide_numbers[k] = k

\* A plan of at least 3 slides was saved after at least 2 chunk requests,
\* more slides having been numbered than the plan keeps (truncation).
C35_Witness ==
    /\ gpc = "done"
    /\ plan_saved >= 3
    /\ chunk_i >= 2
    /\ slide_counter > plan_saved + 1
    /\ slide_numbers = <<1, 2, 3>>

\* C24: the repair pass returns a text that parses as JSON unchanged.
C24_RepairLeavesValidJsonUnchanged ==
    (handler = "txt2slides" /\ json_loads(response).ok) => json_str = response

\* A valid response with an escaped quote in a string, followed by a newline
\* between tokens and another string, went through the repair pass.
C24_Witness ==
    /\ handler = "txt2slides"
    /\ json_loads(response).ok
    /\ response = <<"{", "q", "b", "q", "q", "n", "q", "a", "q", "}">>
    /\ json_str = response

\* C25: a response that is an object between code fences with a raw newline
\* inside a string value is parsed into the slide list, the decoded string
\* holding a newline.
C25_FencedResponseWithNewlineIsParsed ==
    (/\ handler # ""
     /\ Len(response) >= 6
     /\ response[1] = "f"
     /\ response[Len(response)] = "f"
     /\ ~json_loads(SubSeq(response, 3, Len(response) - 2)).ok
     /\ json_loads(fix_json_newlines(SubSeq(response, 3, Len(response) - 2))).ok)
    => /\ plan_stage = "slides"
       /\ parsed.ok
       /\ \E i \in 1..Len(parsed.strings) :
             \E j \in 1..Len(parsed.strings[i]) : parsed.strings[i][j] = "n"

\* C26: when the response does not parse, the stage has failed and the raw
\* response is in a diagnostic file.
C26_UnparseableResponseFailsAndIsKept ==
    (handler # "" /\ ~parsed.ok) => (plan_stage = "failed" /\ diag = "written")

\* C27: the matching fallback appends at most one figure reference to a
\* slide, that of a figure with the highest score, and only when that score
\* is greater than 1/10.
C27_BestFigureOnlyAboveThreshold ==
    lib_call = "match_figures_to_slides" =>
       /\ Len(lib_out.refs) <= 1
       /\ \A r \in 1..Len(lib_out.refs) :
             /\ \A j \in Figures :
                   ScoreNum(lib_in.figures[j], lib_in.slide_words)
                      <= ScoreNum(lib_in.figures[lib_out.refs[r]], lib_in.slide_words)
             /\ 10 * ScoreNum(lib_in.figures[lib_out.refs[r]], lib_in.slide_words) > ScoreDen

\* C28 as stated: a slide with no word in common with any figure gets no
\* figure.
C28_NoOverlapNoFigure ==
    (lib_call = "match_figures_to_slides"
       /\ \A j \in Figures : lib_in.figures[j].common = 0)
    => lib_out.refs = <<>>

\* C28: a slide with no word in common with any figure and whose text
\* mentions no figure by number gets no figure.
C28_NoOverlapNoMentionNoFigure ==
    (lib_call = "match_figures_to_slides"
       /\ \A j \in Figures : lib_in.figures[j].common = 0 /\ ~lib_in.figures[j].mention)
    => lib_out.refs = <<>>

\* A slide with words, figures with words and usable paths, nothing in
\* common and no mention: matched, no figure appended.
C28_Witness ==
    /\ lib_call = "match_figures_to_slides"
    /\ lib_in.slide_words > 0
    /\ \A j \in Figures : /\ lib_in.figures[j].common = 0
                          /\ ~lib_in.figures[j].mention
                          /\ lib_in.figures[j].words > 0
                          /\ lib_in.figures[j].path = "file"
    /\ lib_out.refs = <<>>

\* C29: a figure reference is appended only for a path that is an existing
\* file, and a figure that would be appended but whose path is empty or
\* stale is reported as an error.
C29_OnlyExistingFilesEmbedded ==
    lib_call = "match_figures_to_slides" =>
       /\ \A r \in 1..Len(lib_out.refs) :
             lib_in.figures[lib_out.refs[r]].path = "file"
       /\ (ExceedsThreshold(lib_in.figures[lib_out.best], lib_in.slide_words)
             /\ lib_in.figures[lib_out.best].path # "file") => lib_out.error

\* C30: the deck is in non-decreasing order of slide number, the slides
\* without a number last, and nothing is raised.  The number of a slide is
\* that of its "slide_number" key, or of "slide number" when that key is
\* absent.
C30_DeckInSlideNumberOrder ==
    lib_call = "json2marp" =>
       LET Num(s) == IF s.slide_number # -1 THEN s.slide_number ELSE s.slide_number_sp
       IN  /\ ~lib_out.raised
           /\ \A a, b \in 1..Len(lib_out.deck) :
                 a < b => \/ Num(lib_out.deck[b]) = -1
                          \/ /\ Num(lib_out.deck[a]) # -1
                             /\ Num(lib_out.deck[a]) <= Num(lib_out.deck[b])

\* C31: narration synthesis makes no text-to-speech call and writes no file
\* for a slide whose narration is empty or only whitespace, such a slide
\* does not fail the stage, and when no call fails every other slide has
\* exactly one file, named from its slide number.
C31_BlankNarrationIsSkipped ==
    lib_call \in {"generate_audio", "generate_audio_files"} =>
       LET n == Len(lib_in.slides)
           Blank(i) == lib_in.slides[i].audio \in {"", "ws"}
           FilesOf(i) == {k \in 1..Len(lib_out.written) : lib_out.written[k].slide = i}
       IN  /\ \A i \in 1..n : Blank(i) =>
                 /\ \A k \in 1..Len(lib_out.calls) : lib_out.calls[k] # i
                 /\ FilesOf(i) = {}
           /\ (lib_in.has_key /\ \A i \in 1..n : ~Blank(i) => lib_in.tts[i] = "ok")
              => /\ ~lib_out.raised
                 /\ \A i \in 1..n : ~Blank(i) =>
                       /\ Cardinality(FilesOf(i)) = 1
                       /\ \A k \in FilesOf(i) :
                             lib_out.written[k].num =
                                IF lib_in.slides[i].slide_number_sp = -1 THEN i
                                ELSE lib_in.slides[i].slide_number_sp

\* C32: with the credential set the stage does not fail: a slide whose
\* synthesis fails has no file and every slide with a narration whose
\* synthesis works has one; the stage fails only when the credential is
\* missing.
C32_OneSlideFailureDoesNotAbort ==
    lib_call \in {"generate_audio", "generate_audio_files"} =>
       LET n == Len(lib_in.slides)
           HasFile(i) == \E k \in 1..Len(lib_out.written) : lib_out.written[k].slide = i
       IN  /\ lib_out.raised <=> ~lib_in.has_key
           /\ lib_in.has_key =>
                 \A i \in 1..n : lib_in.slides[i].audio = "text" =>
                    (HasFile(i) <=> lib_in.tts[i] = "ok")

\* C33: render_slides returns only if the renderer produced at least one
\* frame in this invocation and as many frames as the deck has slides;
\* otherwise, the renderer having been invoked, it raises an error that
\* carries the renderer's captured output.
C33_RenderingVerifiesItsFrames ==
    lib_call = "render_slides" =>
       /\ lib_out.result = "path" =>
             (lib_in.produced >= 1 /\ lib_in.produced = lib_in.slides)
       /\ (lib_in.tool # "missing" /\ lib_in.produced # lib_in.slides) =>
             (lib_out.result = "raise" /\ lib_out.renderer_output)

\* C34: figure n gets the bonus only if the slide text mentions exactly
\* figure n: the word "figure" or "fig" in any case, standing on its own, a
\* space, and the number n with no further digit after it.
C34_BonusOnlyForExactMention ==
    lib_call = "mention_bonus" =>
       \A n \in Figures : lib_out[n] =>
          \E i \in 1..(Len(lib_in) - 2) :
             /\ lib_in[i] \in {"figure", "Figure", "fig"}
             /\ (i > 1 => lib_in[i - 1] = " ")
             /\ lib_in[i + 1] = " "
             /\ lib_in[i + 2] = (IF n = 1 THEN "1" ELSE "2")
             /\ (i + 3 <= Len(lib_in) => lib_in[i + 3] \notin {"1", "2"})

\* C36: the chunks split_text_into_chunks returns are each at most the
\* budget long, and their paragraphs, taken in order, are the paragraphs of
\* the text.
C36_ChunksWithinBudget ==
    lib_call = "split_text_into_chunks" =>
       LET RECURSIVE Size(_)
           Size(chunk) == IF chunk = <<>> THEN 0
                          ELSE chunk[1] + (IF Len(chunk) > 1 THEN 2 ELSE 0) + Size(Tail(chunk))
           RECURSIVE Flat(_)
           Flat(chunks) == IF chunks = <<>> THEN <<>>
                           ELSE Head(chunks) \o Flat(Tail(chunks))
       IN  /\ \A c \in 1..Len(lib_out) : Size(lib_out[c]) <= lib_in.max_chunk_size
           /\ Flat(lib_out) = lib_in.paragraphs

\* C37: at most one stage has status `processing` at any time.
C37_AtMostOneStageProcessing ==
    Cardinality({s \in Stages : processing_status[s] = "processing"}) <= 1

\* C38: with a FigureSet, every image reference in a slide of the plan has
\* a path of the FigureSet, whether the fallback ran or not.
C38_NoInventedReferenceSurvives ==
    lib_call = "validate_figures" =>
       \A i \in 1..Len(lib_out.slides) :
          \A j \in 1..Len(lib_out.slides[i].content) :
             lib_out.slides[i].content[j] # "invented"

\* C39: match_figures_to_slides returns the slides in the same number and
\* order, each with its slide number, title and narration; a slide without
\* a figure has its content unchanged, a slide with one has its old content
\* as a prefix of the new; the FigureSet is unchanged.
C39_FallbackChangesOnlyContent ==
    lib_call = "match_all" =>
       /\ Len(lib_out.slides) = Len(lib_in.slides)
       /\ lib_out.figures_data = lib_in.figures_data
       /\ \A i \in 1..Len(lib_in.slides) :
             /\ lib_out.slides[i].slide_number = lib_in.slides[i].slide_number
             /\ lib_out.slides[i].title = lib_in.slides[i].title
             /\ lib_out.slides[i].audio = lib_in.slides[i].audio
             /\ Len(lib_out.slides[i].content) >= Len(lib_in.slides[i].content)
             /\ SubSeq(lib_out.slides[i].content, 1, Len(lib_in.slides[i].content))
                   = lib_in.slides[i].content
             /\ lib_in.picks[i] = "" =>
                   lib_out.slides[i].content = lib_in.slides[i].content

\* Two different slides with content went through the fallback: the first
\* got a figure appended, the second got none.
C39_Witness ==
    /\ lib_call = "match_all"
    /\ Len(lib_in.slides) = 2
    /\ lib_in.slides[1].content = <<"text">>
    /\ lib_in.slides[1].title # lib_in.slides[2].title
    /\ lib_in.picks = <<"fig2", "">>
    /\ lib_out.slides[1].content = <<"text", "\n\n", "fig2">>
    /\ lib_out.slides[2] = lib_in.slides[2]

====
